---- MODULE Spec2Model ----
(***************************************************************************)
(* Constrained regression engine of cloudlesslabs/ml                      *)
(* (src/src/regression/nonlinear.mjs, with the linear solver of           *)
(* src/src/linalg and the helpers of src/src/matrix/utils.mjs).           *)
(*                                                                         *)
(* Numbers are exact rationals <<n, d>> (d > 0, lowest terms): the model   *)
(* is the real-number semantics of the JavaScript arithmetic.  A basis    *)
(* function ("component") is a polynomial, held as the sequence of its    *)
(* monomial weights <<w0, w1, ..., wD>> (weight of x^0 first); the        *)
(* closures the code builds (v => fn(v) + K*componentN(v)) are sums of    *)
(* such polynomials, so the representation is closed under every          *)
(* operation of the engine.                                                *)
(***************************************************************************)
EXTENDS Integers, Sequences, FiniteSets, TLC

\* ------------------------------------------------------------------------
\* Exact rational arithmetic
\* ------------------------------------------------------------------------
Abs(n) == IF n < 0 THEN -n ELSE n

RECURSIVE Gcd(_, _)
Gcd(a, b) == IF b = 0 THEN a ELSE Gcd(b, a % b)

\* <<n, d>> in lowest terms with a positive denominator (d # 0)
Norm(n, d) ==
    LET g == Gcd(Abs(n), Abs(d))
        s == IF d < 0 THEN -1 ELSE 1
    IN  <<s * (n \div g), s * (d \div g)>>

Rat(n) == <<n, 1>>
Zero == <<0, 1>>
One == <<1, 1>>

RAdd(a, b) ==
    IF a[2] = b[2] /\ a[2] = 1 THEN <<a[1] + b[1], 1>>
    ELSE LET g == Gcd(a[2], b[2])
             da == a[2] \div g
             db == b[2] \div g
         IN  Norm(a[1] * db + b[1] * da, da * b[2])

RNeg(a) == <<-a[1], a[2]>>
RSub(a, b) == RAdd(a, RNeg(b))

RMul(a, b) ==
    LET g1 == Gcd(Abs(a[1]), b[2])
        g2 == Gcd(Abs(b[1]), a[2])
    IN  IF a[1] = 0 \/ b[1] = 0 THEN Zero
        ELSE IF a[2] = 1 /\ b[2] = 1 THEN <<a[1] * b[1], 1>>
        ELSE <<(a[1] \div g1) * (b[1] \div g2), (a[2] \div g2) * (b[2] \div g1)>>

\* a / b, b # 0
RDiv(a, b) == RMul(a, Norm(b[2], b[1]))

RLess(a, b) ==
    LET g == Gcd(a[2], b[2])
    IN  a[1] * (b[2] \div g) < b[1] * (a[2] \div g)
RAbs(a) == <<Abs(a[1]), a[2]>>

RECURSIVE RSum(_)
RSum(s) == IF s = <<>> THEN Zero ELSE RAdd(s[1], RSum(Tail(s)))

RECURSIVE RPow(_, _)
RPow(a, k) == IF k = 0 THEN One ELSE RMul(a, RPow(a, k - 1))

\* ------------------------------------------------------------------------
\* matrix/utils.mjs
\* ------------------------------------------------------------------------
DIGIT == 8
\* 1/EPSILON = (10 ** DIGIT) * 2
EPSILON_INV == (10 ^ DIGIT) * 2

\* a test of zero that lets the values within EPSILON of zero pass
isExactlyZero(v) == v[1] = 0

\* isZero = v => Math.abs(v) <= EPSILON :  |n|/d <= 1/EPSILON_INV
isZero(v) == Abs(v[1]) <= v[2] \div EPSILON_INV

\* a test that takes no pivot for zero
isNeverZero(q) == FALSE

\* isZero(Math.sqrt(q)) for q >= 0 :  q <= EPSILON^2
isZeroSqrt(q) == q[1] <= (q[2] \div EPSILON_INV) \div EPSILON_INV

\* ------------------------------------------------------------------------
\* Values
\* ------------------------------------------------------------------------
\* the entry of the JavaScript array [[]] (an empty row: row[0] is undefined)
EmptyEntry == <<0, 0>>
\* an argument that was not passed (undefined)
Undefined == << <<1, 0>> >>
IsNumber(c) == c[2] > 0

Max(a, b) == IF a > b THEN a ELSE b
Min(a, b) == IF a < b THEN a ELSE b

\* A component is a polynomial <<w0, ..., wD>>: x |-> w0 + w1*x + ... + wD*x^D
Monomial(c, k) == [i \in 1..(k + 1) |-> IF i = k + 1 THEN c ELSE Zero]
FnAt(f, i) == IF i <= Len(f) THEN f[i] ELSE Zero
\* v => f(v) + K*g(v)
FnAddScaled(f, K, g) ==
    [i \in 1..Max(Len(f), Len(g)) |-> RAdd(FnAt(f, i), RMul(K, FnAt(g, i)))]
\* f(x)
Call(f, x) == RSum([i \in 1..Len(f) |-> RMul(f[i], RPow(x, i - 1))])

\* the monomials in ascending order: [() => 1, x => x, ..., x => x**deg]
getPolynomeComponentsAscending(deg) ==
    [i \in 1..(deg + 1) |-> Monomial(One, i - 1)]

\* [x => x**deg, ..., x => x, () => 1]
getPolynomeComponents(deg) ==
    [i \in 1..(deg + 1) |-> Monomial(One, deg + 1 - i)]

\* the derivatives without their factors: [x => x**(deg-1), ..., x => x, () => 1]
get1stDerivativeWithoutFactor(deg) ==
    [i \in 1..deg |-> Monomial(One, deg - i)]

\* [x => deg*x**(deg-1), ..., x => 2*x, () => 1]
get1stDerivativePolynomeComponents(deg) ==
    [i \in 1..deg |-> Monomial(Rat(deg + 1 - i), deg - i)]

\* _solveComponentsEquation / fyComponentsCoeffs: x => sum coeffs[i]*components[i](x)
fyComponentsCoeffs(components, coeffs, x) ==
    RSum([i \in 1..Len(coeffs) |-> RMul(coeffs[i], Call(components[i], x))])

\* ------------------------------------------------------------------------
\* _decreaseLinearComplexity: one elimination
\* ------------------------------------------------------------------------
NoResolver == [sole |-> FALSE, coeff |-> Zero, newXis |-> <<>>, newY |-> Zero]
NoRemap == [id |-> TRUE, newY |-> Zero, componentN |-> <<>>]

ReduceFail(msg) ==
    [ok |-> FALSE, error |-> msg, components |-> <<>>,
     resolveCoeffs |-> NoResolver, remap |-> NoRemap, updateComponents |-> <<>>]

\* the closure resolveCoeffs of one elimination, applied to coeffs
ResolveFail(msg) == [ok |-> FALSE, error |-> msg, coeffs |-> <<>>]
ResolveOk(c) == [ok |-> TRUE, error |-> "", coeffs |-> c]

\* a closure that checks nothing and solves nothing
resolveUnchecked(r, coeffs) == ResolveOk(Append(coeffs, r.newY))

resolveCoeffs1(r, coeffs) ==
    IF r.sole THEN ResolveOk(<<r.coeff>>)
    ELSE IF coeffs = Undefined THEN ResolveFail("input")
    ELSE IF Len(coeffs) # Len(r.newXis) THEN ResolveFail("input")
    ELSE IF \E i \in 1..Len(coeffs) : ~IsNumber(coeffs[i]) THEN ResolveFail("input")
    ELSE ResolveOk(Append(coeffs,
            RAdd(r.newY, RSum([i \in 1..Len(coeffs) |-> RMul(coeffs[i], r.newXis[i])]))))

\* a yMap that leaves the point where it is
yMapUnshifted(m, xx, yy) == yy

\* the closure yMap: (xx,yy) => yy - newY*componentN(xx)
yMap(m, xx, yy) ==
    IF m.id THEN yy ELSE RSub(yy, RMul(m.newY, Call(m.componentN, xx)))

\* the closure remap: pts => pts.map(([x,y]) => [x, yMap(x,y)])
remap1(m, pts) == [i \in 1..Len(pts) |-> <<pts[i][1], yMap(m, pts[i][1], pts[i][2])>>]

\* an elimination that leaves the basis as long as it was
keepComponents(newXis, components, componentN) == components

\* the closure updateComponents(components, componentN) with its captured newXis
updateComponents(newXis, components, componentN) ==
    [i \in 1..Len(newXis) |-> FnAddScaled(components[i], newXis[i], componentN)]

_decreaseLinearComplexity(components, point) ==
    LET x == point[1]
        y == point[2]
        dim == Len(components)
        lastIdx == dim - 1
        componentN == components[dim]
        \* lines 49-61, xn = components[0](x)
        single(xn) ==
            IF isZero(xn) THEN ReduceFail("unstable")
            ELSE [ok |-> TRUE, error |-> "", components |-> <<>>,
                  resolveCoeffs |-> [sole |-> TRUE, coeff |-> RDiv(y, xn),
                                     newXis |-> <<>>, newY |-> Zero],
                  remap |-> NoRemap, updateComponents |-> <<>>]
        \* lines 73-131, with the newXis and newY of lines 70-71
        closures(newXis, newY) ==
            [ok |-> TRUE, error |-> "",
             components |-> updateComponents(newXis, components, componentN),
             resolveCoeffs |-> [sole |-> FALSE, coeff |-> Zero,
                                newXis |-> newXis, newY |-> newY],
             remap |-> [id |-> FALSE, newY |-> newY, componentN |-> componentN],
             updateComponents |-> newXis]
        \* lines 63-71, xis being components.map(fn => fn(x))
        several(xis) ==
            IF isZero(xis[dim]) THEN ReduceFail("unstable")
            ELSE closures([i \in 1..lastIdx |-> RDiv(RNeg(xis[i]), xis[dim])],
                          RDiv(y, xis[dim]))
    IN  IF ~IsNumber(x) \/ ~IsNumber(y) THEN ReduceFail("input")
        ELSE IF dim = 0 THEN ReduceFail("input")
        ELSE IF dim = 1 THEN single(Call(components[1], x))
        ELSE several([i \in 1..dim |-> Call(components[i], x)])

\* ------------------------------------------------------------------------
\* decreaseLinearComplexity: slope eliminations, then point eliminations
\* ------------------------------------------------------------------------
\* expandCoeffsFns.slice(-1)[0]: the resolvers of the eliminations made so far,
\* composed as coeffs => previousExpandCoeffsFn(resolveCoeffs(coeffs)); chain
\* holds the resolvers in elimination order and the last one is applied first.
RECURSIVE expandCoeffsFifo(_, _)
\* a composition that applies the resolvers in elimination order, first made first
expandCoeffsFifo(chain, coeffs) ==
    LET next(r) ==
            IF Len(chain) = 1 \/ ~r.ok THEN r
            ELSE expandCoeffsFifo(Tail(chain), r.coeffs)
    IN  next(resolveCoeffs1(chain[1], coeffs))

RECURSIVE expandCoeffsFn(_, _)
expandCoeffsFn(chain, coeffs) ==
    LET n == Len(chain)
        previous(r) ==
            IF n = 1 \/ ~r.ok THEN r
            ELSE expandCoeffsFn(SubSeq(chain, 1, n - 1), r.coeffs)
    IN  previous(resolveCoeffs1(chain[n], coeffs))

\* The slope loop (lines 280-294) from iteration i on.  st holds the loop's
\* variables: slopeComps, constraints, expandCoeffsFns and components.
RECURSIVE slopeLoop(_, _, _)
slopeLoop(i, spl, st) ==
    IF i > spl \/ ~st.ok THEN st
    ELSE
        LET n == Len(st.components)
            iteration(r) ==
                IF ~r.ok THEN [st EXCEPT !.ok = FALSE, !.error = r.error]
                ELSE slopeLoop(i + 1, spl,
                        [st EXCEPT
                            !.constraints = remap1(r.remap, st.constraints),
                            !.slopeComps = r.components,
                            !.expandCoeffsFns = Append(st.expandCoeffsFns, r.resolveCoeffs),
                            !.components =
                                Append(updateComponents(r.updateComponents, st.components,
                                                        st.components[n - 1]),
                                       st.components[n])])
        IN  iteration(_decreaseLinearComplexity(st.slopeComps, st.constraints[i]))

\* a point loop that hands every point to _decreaseLinearComplexity, whether or
\* not a component is left
RECURSIVE pointLoopUnguarded(_, _)
pointLoopUnguarded(i, st) ==
    IF i > Len(st.constraints) \/ ~st.ok THEN st
    ELSE
        LET iteration(r) ==
                IF ~r.ok THEN [st EXCEPT !.ok = FALSE, !.error = r.error]
                ELSE pointLoopUnguarded(i + 1,
                        [st EXCEPT
                            !.constraints = remap1(r.remap, st.constraints),
                            !.comps = r.components,
                            !.remaps = Append(st.remaps, r.remap),
                            !.expandCoeffsFns = Append(st.expandCoeffsFns, r.resolveCoeffs)])
        IN  iteration(_decreaseLinearComplexity(st.comps, st.constraints[i]))

\* The point loop (lines 303-318) from iteration i on.
RECURSIVE pointLoop(_, _)
pointLoop(i, st) ==
    IF i > Len(st.constraints) \/ ~st.ok THEN st
    ELSE IF Len(st.comps) = 0 THEN pointLoop(i + 1, st)
    ELSE
        LET iteration(r) ==
                IF ~r.ok THEN [st EXCEPT !.ok = FALSE, !.error = r.error]
                ELSE pointLoop(i + 1,
                        [st EXCEPT
                            !.constraints = remap1(r.remap, st.constraints),
                            !.comps = r.components,
                            !.remaps = Append(st.remaps, r.remap),
                            !.expandCoeffsFns = Append(st.expandCoeffsFns, r.resolveCoeffs)])
        IN  iteration(_decreaseLinearComplexity(st.comps, st.constraints[i]))

NoClosure == [getSlopeCoeffs |-> <<>>, expandCoeffsFns |-> <<>>]

DecreaseFail(msg) ==
    [ok |-> FALSE, error |-> msg, components |-> <<>>,
     resolveCoeffs |-> NoClosure, remap |-> <<>>]

\* options.slopeConstraints = { components: slopeComponents, slopes }; an absent
\* option is the empty sequence
decreaseLinearComplexity(components, points, slopeComponents, slopes) ==
    LET dim == Len(components)
        sl == Len(slopeComponents)
        spl == Len(slopes)
        withSlopes == sl > 0 /\ spl > 0
    IN  IF dim = 0 THEN DecreaseFail("input")
        ELSE IF withSlopes /\ dim - 1 # sl THEN DecreaseFail("incoherent")
        ELSE IF withSlopes /\ spl > sl THEN DecreaseFail("overdetermined")
        ELSE
            LET \* lines 320-335, s and p being the variables of the two loops at their end
                closures(s, p) ==
                    IF ~p.ok THEN DecreaseFail(p.error)
                    ELSE [ok |-> TRUE, error |-> "", components |-> p.comps,
                          resolveCoeffs |-> [getSlopeCoeffs |-> s.expandCoeffsFns,
                                             expandCoeffsFns |-> p.expandCoeffsFns],
                          remap |-> p.remaps]
                \* lines 299-318
                pointsPhase(s) ==
                    IF ~s.ok THEN DecreaseFail(s.error)
                    ELSE closures(s, pointLoop(1,
                            [ok |-> TRUE, error |-> "", constraints |-> points,
                             comps |-> s.components, remaps |-> <<>>,
                             expandCoeffsFns |-> <<>>]))
            IN  pointsPhase(IF withSlopes
                            THEN slopeLoop(1, spl,
                                    [ok |-> TRUE, error |-> "",
                                     slopeComps |-> slopeComponents,
                                     constraints |-> slopes, expandCoeffsFns |-> <<>>,
                                     components |-> components])
                            ELSE [ok |-> TRUE, error |-> "", slopeComps |-> <<>>,
                                  constraints |-> <<>>, expandCoeffsFns |-> <<>>,
                                  components |-> components])

\* getCoeffs (line 320)
getCoeffs(cl, coeffs) ==
    IF cl.expandCoeffsFns # <<>> THEN expandCoeffsFn(cl.expandCoeffsFns, coeffs)
    ELSE IF coeffs # Undefined /\ Len(coeffs) > 0 THEN ResolveOk(coeffs)
    ELSE ResolveOk(<<EmptyEntry>>)

\* the closure resolveCoeffs returned by decreaseLinearComplexity (lines 321-329)
resolveCoeffs(cl, coeffs) ==
    IF cl.getSlopeCoeffs # <<>>
    THEN LET \* line 327
             complete(completeHeadCoeffs, lastCoeff) ==
                IF ~completeHeadCoeffs.ok THEN completeHeadCoeffs
                ELSE ResolveOk(Append(completeHeadCoeffs.coeffs, lastCoeff))
             \* lines 324-326
             split(allCoeffs) ==
                IF ~allCoeffs.ok THEN allCoeffs
                ELSE
                    LET n == Len(allCoeffs.coeffs)
                        headCoeffs == SubSeq(allCoeffs.coeffs, 1, n - 1)
                        lastCoeff == allCoeffs.coeffs[n]
                    IN  complete(expandCoeffsFn(cl.getSlopeCoeffs, headCoeffs), lastCoeff)
         IN  split(getCoeffs(cl, coeffs))
    ELSE getCoeffs(cl, coeffs)

\* the closure remap returned by decreaseLinearComplexity (line 334)
RECURSIVE remap(_, _)
remap(remaps, points) ==
    IF remaps = <<>> THEN points
    ELSE remap(Tail(remaps), remap1(remaps[1], points))

\* ------------------------------------------------------------------------
\* linalg/qr.mjs and linalg/backward.mjs, square-root free
\* ------------------------------------------------------------------------
\* A = QR with Q orthonormal and R upper triangular.  Over the reals the
\* Householder factors are, up to the sign of each row of R, those of
\* Gram-Schmidt: column j of Q is U[j]/sqrt(D[j]) and R[i][j] is
\* Dot(U[i], column j of A)/sqrt(D[i]), where U[j] is column j of A minus its
\* projections on U[1..j-1] and D[j] = Dot(U[j], U[j]) = R[j][j]^2.  qr returns
\* U and D, which are rational; the square roots cancel in backward.
Dot(u, v) == RSum([i \in 1..Len(u) |-> RMul(u[i], v[i])])
Column(A, j) == [i \in 1..Len(A) |-> A[i][j]]

RECURSIVE Project(_, _, _)
\* a minus its projections on us[1..k]
Project(a, us, k) ==
    IF k = 0 THEN a
    ELSE LET u == us[k]
             minus(rest, d) ==
                IF d[1] = 0 THEN rest
                ELSE [i \in 1..Len(a) |-> RSub(rest[i], RMul(RDiv(Dot(u, a), d), u[i]))]
         IN  minus(Project(a, us, k - 1), Dot(u, u))

RECURSIVE Orthogonalise(_, _)
Orthogonalise(A, j) ==
    IF j = 0 THEN <<>>
    ELSE LET next(us) == Append(us, Project(Column(A, j), us, j - 1))
         IN  next(Orthogonalise(A, j - 1))

qr(A) ==
    LET factors(U) == [U |-> U, D |-> [j \in 1..Len(A) |-> Dot(U[j], U[j])]]
    IN  factors(Orthogonalise(A, Len(A)))

\* linearIndependance (lines 221-225): no isZero(R[i][i])
linearIndependance(QR) == \A i \in 1..Len(QR.D) : ~isZeroSqrt(QR.D[i])

\* backward(R, dot(transpose(Q),Y)): coefficients[i] =
\* (Y'[i] - sum_{j>i} coefficients[j]*R[i][j]) / R[i][i], from the last row up;
\* cs holds coefficients[i+1..size]
RECURSIVE backward(_, _, _, _, _)
backward(QR, A, Y, i, cs) ==
    IF i = 0 THEN cs
    ELSE
        LET size == Len(A)
            u == QR.U[i]
            summation == RSum([k \in 1..(size - i) |->
                                RMul(cs[k], Dot(u, Column(A, i + k)))])
            c == RDiv(RSub(Dot(u, Y), summation), QR.D[i])
        IN  backward(QR, A, Y, i - 1, <<c>> \o cs)

\* ------------------------------------------------------------------------
\* _nonlinearRegression: the exact solve
\* ------------------------------------------------------------------------
\* options: deg, components (<<>>: absent), resolveCoeffs (hasResolve: present)
Options(deg, components) ==
    [deg |-> deg, components |-> components, hasResolve |-> FALSE,
     resolveCoeffs |-> NoClosure]
OptionsResolve(components, cl) ==
    [deg |-> 1, components |-> components, hasResolve |-> TRUE, resolveCoeffs |-> cl]

\* a design matrix filled from the end of the point list
rowFromEnd(points, i) == points[Len(points) + 1 - i]

\* line 203: the point that fills row i of A and Y
row(points, i) == points[i]

_nonlinearRegression(points, options) ==
    LET pointsSize == Len(points)
        compDeg == Len(options.components)
        deg == IF compDeg > 0 THEN compDeg - 1 ELSE options.deg
        size == deg + 1
        components == IF compDeg > 0 THEN options.components
                      ELSE getPolynomeComponents(deg)
    IN  IF pointsSize = 0 THEN ResolveFail("input")
        ELSE IF pointsSize < size THEN ResolveFail("missing_points")
        ELSE
            LET Y == [i \in 1..size |-> row(points, i)[2]]
                \* line 232
                expanded(coefficients) ==
                    IF options.hasResolve
                    THEN resolveCoeffs(options.resolveCoeffs, coefficients)
                    ELSE ResolveOk(coefficients)
                \* lines 221-230
                solve(A, QR) ==
                    IF ~linearIndependance(QR) THEN ResolveFail("singular")
                    ELSE expanded(backward(QR, A, Y, size, <<>>))
                \* line 220
                factorize(A) == solve(A, qr(A))
            IN  factorize([i \in 1..size |-> [j \in 1..size |->
                            Call(components[j], row(points, i)[1])]])

\* ------------------------------------------------------------------------
\* nonlinearRegression: the exact regime, with or without slope constraints
\* ------------------------------------------------------------------------
\* opts: deg, components (<<>>: absent), slopeComponents (<<>>: absent), slopes
nonlinearRegression(points, opts) ==
    LET compDeg == Len(opts.components)
        deg == IF compDeg > 0 THEN compDeg - 1 ELSE opts.deg
        components == IF compDeg > 0 THEN opts.components
                      ELSE getPolynomeComponents(deg)
        slopeComponents ==
            IF compDeg > 0 \/ opts.slopeComponents # <<>> THEN opts.slopeComponents
            ELSE get1stDerivativePolynomeComponents(deg)
    IN  IF Len(opts.slopes) > 0
        THEN IF slopeComponents = <<>> THEN ResolveFail("input")
             ELSE
                LET \* lines 387-389
                    reducedSolve(d) ==
                        IF ~d.ok THEN ResolveFail(d.error)
                        ELSE IF Len(d.components) > 0
                        THEN _nonlinearRegression(remap(d.remap, points),
                                OptionsResolve(d.components, d.resolveCoeffs))
                        ELSE resolveCoeffs(d.resolveCoeffs, Undefined)
                IN  reducedSolve(decreaseLinearComplexity(components, points,
                                                          slopeComponents, opts.slopes))
        ELSE _nonlinearRegression(points,
                [deg |-> opts.deg, components |-> opts.components,
                 hasResolve |-> opts.hasResolve, resolveCoeffs |-> opts.resolveCoeffs])

\* the options { components } and { components, resolveCoeffs } of the calls made
\* by the iterative path
ExactOptions(components, hasResolve, cl) ==
    [deg |-> 1, components |-> components, slopeComponents |-> <<>>, slopes |-> <<>>,
     hasResolve |-> hasResolve, resolveCoeffs |-> cl]

\* ------------------------------------------------------------------------
\* nonlinearGradientDescentRegression: pure parts
\* ------------------------------------------------------------------------
LEARNING_RATE == <<1, 2>>

\* computePointsLoss(points)(fyComponentsCoeffs(components)(coeffs))
computePointsLoss(points, pointsSize, components, coeffs) ==
    LET square(d) == RMul(d, d)
    IN  RDiv(RSum([k \in 1..pointsSize |->
                    square(RSub(fyComponentsCoeffs(components, coeffs, points[k][1]),
                                points[k][2]))]),
             Rat(pointsSize))

\* uniquePointConstraints (lines 473-485): the first occurrence of each [x,y]
RECURSIVE uniquePointConstraints(_)
uniquePointConstraints(pcs) ==
    IF pcs = <<>> THEN <<>>
    ELSE LET n == Len(pcs)
             head == uniquePointConstraints(SubSeq(pcs, 1, n - 1))
         IN  IF \E k \in 1..Len(head) : head[k] = pcs[n] THEN head
             ELSE Append(head, pcs[n])

\* puffy-core/collection sortBy(points, p => p[0]): stable ascending sort
RECURSIVE sortBy(_)
sortBy(pts) ==
    IF pts = <<>> THEN <<>>
    ELSE LET n == Len(pts)
             s == sortBy(SubSeq(pts, 1, n - 1))
             k == Cardinality({j \in 1..Len(s) : ~RLess(pts[n][1], s[j][1])})
         IN  SubSeq(s, 1, k) \o <<pts[n]>> \o SubSeq(s, k + 1, Len(s))

\* puffy-core/math percentile(p)(xs): the value of nearest rank ceil(p*n/100)
percentile(p, pts) ==
    LET n == Len(pts)
        rank == (p * n + 99) \div 100
    IN  sortBy(pts)[IF rank < 1 THEN 1 ELSE IF rank > n THEN n ELSE rank][1]

\* sortedPoints.findIndex(([x]) => x == p), 0-based, -1 when there is none
findIndex(sortedPoints, p) ==
    LET hits == {k \in 1..Len(sortedPoints) : sortedPoints[k][1] = p}
    IN  IF hits = {} THEN -1
        ELSE (CHOOSE k \in hits : \A m \in hits : k <= m) - 1

\* Math.round(100/size)
percentileStep(size) == (200 + size) \div (2 * size)

\* the loop of lines 558-567 from iteration i (0-based) on; zones are 0-based
\* [startIdx, endIdx] pairs
RECURSIVE pointsZonesLoop(_, _, _, _, _)
pointsZonesLoop(i, endIdx, size, pts, zones) ==
    IF i >= size THEN zones
    ELSE IF i + 1 = size
    THEN pointsZonesLoop(i + 1, endIdx, size, pts,
                         Append(zones, <<endIdx, Len(pts) - 1>>))
    ELSE LET zone(idx) ==
                pointsZonesLoop(i + 1, idx + 1, size, pts, Append(zones, <<endIdx, idx>>))
         IN  zone(findIndex(sortBy(pts),
                            percentile((i + 1) * percentileStep(size), pts)))

\* the indexes startIdx + Math.round(Math.random()*(endIdx - startIdx)) can take
ZoneIndexes(zone) ==
    IF zone[1] <= zone[2] THEN zone[1]..zone[2] ELSE zone[2]..zone[1]

\* all the outcomes of getRandomPoints(): one index per zone
RECURSIVE RandomIndexes(_)
RandomIndexes(zones) ==
    IF zones = <<>> THEN {<<>>}
    ELSE {<<a>> \o r : a \in ZoneIndexes(zones[1]), r \in RandomIndexes(Tail(zones))}

\* a fit object { err, coeffs }; def = FALSE is the undefined variable
NoFit == [def |-> FALSE, id |-> 0, err |-> Zero, coeffs |-> <<>>]
Fit(id, err, coeffs) == [def |-> TRUE, id |-> id, err |-> err, coeffs |-> coeffs]

\* a tracking that forgets the fit it replaces
trackBestOnly(best, second, fit, copyId) ==
    IF ~best.def THEN <<fit, second>>
    ELSE IF RLess(fit.err, best.err) THEN <<fit, second>>
    ELSE IF ~second.def \/ RLess(fit.err, second.err) THEN <<best, fit>>
    ELSE <<best, second>>

\* lines 585-591: bestFit/secondBestFit after a successful restart yields fit;
\* copyId is the identity of the copy { ...bestFit }
TrackFits(best, second, fit, copyId) ==
    IF ~best.def THEN <<fit, second>>
    ELSE IF RLess(fit.err, best.err) THEN <<fit, [best EXCEPT !.id = copyId]>>
    ELSE IF ~second.def \/ RLess(fit.err, second.err) THEN <<best, fit>>
    ELSE <<best, second>>

\* a decay of 0.1 per epoch all the way down
decayLinear(lr) == RSub(lr, <<1, 10>>)

\* lines 643-650: the decay of a non-improving epoch
decay(lr) ==
    LET l == IF RLess(<<1, 5>>, lr) THEN RSub(lr, <<1, 10>>)
             ELSE IF RLess(<<1, 20>>, lr) THEN RSub(lr, <<1, 20>>)
             ELSE IF RLess(<<1, 100>>, lr) THEN RSub(lr, <<1, 100>>)
             ELSE lr
        \* Math.round(l*100)/100, h being l*100 + 1/2
        round(h) == Norm(h[1] \div h[2], 100)
    IN  round(RAdd(RMul(l, Rat(100)), <<1, 2>>))

\* apply(A, B, transform) on column vectors
add(A, B) == [k \in 1..Len(A) |-> RAdd(A[k], B[k])]
min(A, B) == [k \in 1..Len(A) |-> RSub(A[k], B[k])]
mult(A, b) == [k \in 1..Len(A) |-> RMul(A[k], b)]
\* a norm test that never finds the norm to be zero
normIsNeverZero(A) == FALSE
\* isZero(vectorNorm(A))
vectorNormIsZero(A) == isZeroSqrt(RSum([k \in 1..Len(A) |-> RMul(A[k], A[k])]))

\* What a call returns or throws.  kind: "none" (still running), "error"
\* (thrown), "coeffs" (a bare coefficient array), "fit" (a record
\* { err, coeffs, components, fy }, fy being fyComponentsCoeffs(components)(coeffs))
NoResult ==
    [kind |-> "none", error |-> "", err |-> Zero, coeffs |-> <<>>, components |-> <<>>,
     id |-> 0]
Throw(msg) == [NoResult EXCEPT !.kind = "error", !.error = msg]
ReturnCoeffs(coeffs) == [NoResult EXCEPT !.kind = "coeffs", !.coeffs = coeffs]
ReturnFit(id, err, coeffs, components) ==
    [NoResult EXCEPT !.kind = "fit", !.err = err, !.coeffs = coeffs,
                     !.components = components, !.id = id]

\* Lines 432-548: validation, constraint pre-reduction and the returns made
\* before the randomized initialization.  c is the call: _points and options.
\* The answer holds the result when the call ends here, else (result.kind =
\* "none") the values of the locals components, points, resolveCoeffs and size.
PreReduction(c) ==
    LET pointsSize == Len(c.points)
        slopeConstraintsExist == Len(c.slopes) > 0
        size0 == c.deg + 1
        components0 == getPolynomeComponents(c.deg)
        slopeComponents == get1stDerivativePolynomeComponents(c.deg)
        stop(res) ==
            [result |-> res, components |-> <<>>, points |-> <<>>,
             hasResolve |-> FALSE, resolveCoeffs |-> NoClosure]
        \* lines 490-497, 515-523 and 539-547: the fit object of the coefficients
        \* an exact solve returned
        exactFit(r) ==
            stop(IF ~r.ok THEN Throw(r.error)
                 ELSE ReturnFit(0,
                        computePointsLoss(c.points, pointsSize, components0, r.coeffs),
                        r.coeffs, components0))
        \* lines 529-548
        go(components, points, hasResolve, cl) ==
            IF pointsSize < Len(components) THEN stop(Throw("missing_points"))
            ELSE IF pointsSize = Len(components)
            THEN exactFit(nonlinearRegression(points,
                            ExactOptions(components, hasResolve, cl)))
            ELSE [result |-> NoResult, components |-> components, points |-> points,
                  hasResolve |-> hasResolve, resolveCoeffs |-> cl]
        \* lines 506-524, d being what decreaseLinearComplexity returned
        reduce(d) ==
            IF ~d.ok THEN stop(Throw(d.error))
            ELSE IF Len(d.components) = 0
            THEN exactFit(resolveCoeffs(d.resolveCoeffs, Undefined))
            ELSE go(d.components, remap(d.remap, c.points), TRUE, d.resolveCoeffs)
        \* lines 486-505, constraints being the unique point constraints
        constrain(constraints) ==
            IF size0 = Len(constraints)
            THEN exactFit(nonlinearRegression(constraints,
                            ExactOptions(components0, FALSE, NoClosure)))
            ELSE reduce(IF slopeConstraintsExist
                        THEN decreaseLinearComplexity(components0, constraints,
                                                      slopeComponents, c.slopes)
                        ELSE decreaseLinearComplexity(components0, constraints,
                                                      <<>>, <<>>))
    IN  IF pointsSize = 0 THEN stop(Throw("input"))
        ELSE IF (c.hasPointConstraints /\ Len(c.pointConstraints) > 0)
                \/ slopeConstraintsExist
        THEN IF ~c.hasPointConstraints THEN stop(Throw("type_error"))
             ELSE constrain(uniquePointConstraints(c.pointConstraints))
        ELSE go(components0, c.points, FALSE, NoClosure)

\* ------------------------------------------------------------------------
\* State
\* ------------------------------------------------------------------------
VARIABLES
    pc,             \* where the call is: "start", "reduced", "init", "refine", "done"
    call,           \* the arguments of the call
    reduced,        \* what decreaseLinearComplexity returned to the caller
    components,     \* the local components (the basis left after pre-reduction)
    points,         \* the local points (remapped)
    resolver,       \* the local resolveCoeffs: [has, cl]
    sortedPoints,
    pointsZones,
    i,              \* the loop counter of the restart loop, then of the refinement loop
    bestFit,
    secondBestFit,
    learningRate,
    nextId,         \* identity of the next fit object created
    onFitCalls,     \* the invocations of options.onFit so far: epoch and fit as passed
    result,         \* what the call returned or threw
    suspended       \* the locals of the invocations that are not running

vars == <<pc, call, reduced, components, points, resolver, sortedPoints, pointsZones,
          i, bestFit, secondBestFit, learningRate, nextId, onFitCalls, result,
          suspended>>

gdVars == <<components, points, resolver, sortedPoints, pointsZones,
            i, bestFit, secondBestFit, learningRate, nextId, onFitCalls>>

\* ------------------------------------------------------------------------
\* Polynomials, as the properties read them
\* ------------------------------------------------------------------------
\* The polynomial of the coefficients coeffs (highest power first) at x, by
\* Horner's rule, and its first derivative.
RECURSIVE Horner(_, _, _)
Horner(coeffs, x, acc) ==
    IF coeffs = <<>> THEN acc
    ELSE Horner(Tail(coeffs), x, RAdd(RMul(acc, x), coeffs[1]))
PolyAt(coeffs, x) == Horner(coeffs, x, Zero)
SlopeAt(coeffs, x) ==
    PolyAt([k \in 1..(Len(coeffs) - 1) |-> RMul(Rat(Len(coeffs) - k), coeffs[k])], x)

PassesThrough(coeffs, pt) == PolyAt(coeffs, pt[1]) = pt[2]
HasSlope(coeffs, sl) == SlopeAt(coeffs, sl[1]) = sl[2]

\* ------------------------------------------------------------------------
\* Inputs
\* ------------------------------------------------------------------------
MaxDeg == 2
MaxEpochs == 2
MaxInitEpochs == 2

SeqsOf(S, lo, hi) == UNION {[1..k -> S] : k \in lo..hi}
Pt(x, y) == <<Rat(x), Rat(y)>>

\* the samples: three points with arbitrary y values (noise), taken at
\* x = 0, 1, 2 in order, or unsorted with a repeated x
SampleYs == {0, 1, 2}
Sampled(ys) == [k \in 1..3 |-> Pt(k - 1, ys[k])]
Samples ==
    {Sampled(ys) : ys \in [1..3 -> SampleYs]}
        \cup {<<Pt(1, ys[1]), Pt(0, ys[2]), Pt(1, ys[3])>> : ys \in [1..3 -> {0, 2}]}

\* point constraints [x, y]
ConstraintGrid == {Pt(x, y) : x \in {0, 1}, y \in {0, 1}}
\* slope constraints [x, dy/dx]
SlopeGrid == {Pt(x, s) : x \in {0, 1}, s \in {0, 1}}

NoReduced == DecreaseFail("")

\* the locals of an invocation of c that has not begun
Fresh(c) ==
    /\ pc = "start"
    /\ call = c
    /\ reduced = NoReduced
    /\ components = <<>>
    /\ points = <<>>
    /\ resolver = [has |-> FALSE, cl |-> NoClosure]
    /\ sortedPoints = <<>>
    /\ pointsZones = <<>>
    /\ i = 0
    /\ bestFit = NoFit
    /\ secondBestFit = NoFit
    /\ learningRate = Zero
    /\ nextId = 1
    /\ onFitCalls = <<>>
    /\ result = NoResult

\* one invocation, alone
Idle(c) == Fresh(c) /\ suspended = <<>>

\* A call.  api "nonlinear" is the default export, api "decrease" a caller of
\* decreaseLinearComplexity(components of deg, pointConstraints, { slopeConstraints })
\* who goes on with the reduced system.  coeffs is the argument that caller
\* gives to resolveCoeffs.  truth is not an argument: it records the
\* coefficients the points were computed from, when they were.  restarts is not
\* an argument either: it is what the randomized restarts come to, one after the
\* other, when that is given.
NoCall ==
    [api |-> "", exact |-> TRUE, deg |-> 1, points |-> <<>>,
     hasPointConstraints |-> FALSE, pointConstraints |-> <<>>, slopes |-> <<>>,
     epochs |-> 0, initEpochs |-> 0, learningRate |-> Zero, coeffs |-> Undefined,
     truth |-> <<>>, restarts |-> <<>>]

\* nonlinear(points, { deg, exact:false, epochs, initEpochs, onFit,
\*                     pointConstraints, slopeConstraints: { slopes } })
Iterative(deg, pts, hasPcs, pcs, slopes) ==
    [NoCall EXCEPT !.api = "nonlinear", !.exact = FALSE, !.deg = deg, !.points = pts,
                   !.hasPointConstraints = hasPcs, !.pointConstraints = pcs,
                   !.slopes = slopes, !.epochs = MaxEpochs,
                   !.initEpochs = MaxInitEpochs]

\* noisy samples, with up to two point constraints or none passed
InitNoisy ==
    \E deg \in 1..MaxDeg, pts \in Samples, hasPcs \in BOOLEAN,
       pcs \in SeqsOf(ConstraintGrid, 0, 2) :
        /\ hasPcs \/ pcs = <<>>
        /\ Idle(Iterative(deg, pts, hasPcs, pcs, <<>>))

\* more point constraints than a line has coefficients
InitSurplus ==
    \E pts \in {<<Pt(0, 0), Pt(1, 1), Pt(2, 1)>>, <<Pt(0, 1), Pt(1, 0), Pt(2, 2)>>},
       pcs \in SeqsOf(ConstraintGrid, 3, 3) :
        Idle(Iterative(1, pts, TRUE, pcs, <<>>))

\* slope constraints, with at most one point constraint or none passed
InitSlopes ==
    \E deg \in 1..MaxDeg, ys \in [1..3 -> {0, 2}], hasPcs \in BOOLEAN,
       pcs \in SeqsOf(ConstraintGrid, 0, 1), slopes \in SeqsOf(SlopeGrid, 1, 1) :
        /\ hasPcs \/ pcs = <<>>
        /\ Idle(Iterative(deg, Sampled(ys), hasPcs, pcs, slopes))

Init == InitNoisy \/ InitSurplus \/ InitSlopes

\* ------------------------------------------------------------------------
\* nonlinearGradientDescentRegression, step by step
\* ------------------------------------------------------------------------
\* lines 429-573: up to the randomized initialization
Start ==
    /\ pc = "start"
    /\ call.api = "nonlinear"
    /\ ~call.exact
    /\ LET prepare(r) ==
            IF r.result.kind # "none"
            THEN /\ result' = r.result
                 /\ pc' = "done"
                 /\ UNCHANGED <<components, points, resolver, sortedPoints, pointsZones>>
            ELSE /\ components' = r.components
                 /\ points' = r.points
                 /\ resolver' = [has |-> r.hasResolve, cl |-> r.resolveCoeffs]
                 /\ sortedPoints' = sortBy(r.points)
                 /\ pointsZones' = pointsZonesLoop(0, 0, Len(r.components), r.points, <<>>)
                 /\ pc' = "init"
                 /\ UNCHANGED result
       IN  prepare(PreReduction(call))
    /\ UNCHANGED <<call, reduced, i, bestFit, secondBestFit, learningRate, nextId,
                   onFitCalls>>
    /\ UNCHANGED suspended

\* lines 578-595: one randomized restart
InitEpoch ==
    /\ pc = "init"
    /\ i < call.initEpochs
    /\ \E idx \in RandomIndexes(pointsZones) :
        LET randomPoints == [k \in 1..Len(idx) |-> sortedPoints[idx[k] + 1]]
            \* lines 585-591
            keep(t) ==
                /\ bestFit' = t[1]
                /\ secondBestFit' = t[2]
                /\ nextId' = nextId + 2
            \* lines 580-584, r being the outcome of the exact solve
            restart(r) ==
                IF r.ok
                THEN keep(TrackFits(bestFit, secondBestFit,
                            Fit(nextId,
                                computePointsLoss(points, Len(call.points), components,
                                                  r.coeffs),
                                r.coeffs),
                            nextId + 1))
                ELSE UNCHANGED <<bestFit, secondBestFit, nextId>>
        IN  restart(nonlinearRegression(randomPoints,
                                        ExactOptions(components, FALSE, NoClosure)))
    /\ i' = i + 1
    /\ UNCHANGED <<pc, call, reduced, components, points, resolver, sortedPoints,
                   pointsZones, learningRate, onFitCalls, result>>
    /\ UNCHANGED suspended

\* the default rate, whatever the caller configures
defaultRate == LEARNING_RATE

\* line 438: lr = _learningRate || LEARNING_RATE
lr == IF call.learningRate[1] = 0 THEN LEARNING_RATE ELSE call.learningRate

\* lines 597-615: the fallback second fit, onFit(bestFit, 0), the errDelta return
AfterInit ==
    /\ pc = "init"
    /\ i = call.initEpochs
    /\ IF ~bestFit.def
       THEN \* bestFit.coeffs of undefined
            /\ result' = Throw("type_error")
            /\ pc' = "done"
            /\ UNCHANGED <<bestFit, secondBestFit, nextId, onFitCalls, learningRate, i>>
       ELSE LET \* lines 608-613
                fitted(best, second) ==
                    /\ bestFit' = best
                    /\ secondBestFit' = second
                    /\ nextId' = nextId + 2
                    /\ onFitCalls' = Append(onFitCalls, [epoch |-> 0, fit |-> best])
                    /\ IF isZero(RSub(second.err, best.err))
                       THEN /\ result' = ReturnCoeffs(best.coeffs)
                            /\ pc' = "done"
                            /\ UNCHANGED <<learningRate, i>>
                       ELSE /\ learningRate' = lr
                            /\ i' = 0
                            /\ pc' = "refine"
                            /\ UNCHANGED result
                \* lines 597-606, fit being the fit of the scaled coefficients
                fallback(fit) ==
                    IF secondBestFit.def THEN fitted(bestFit, secondBestFit)
                    ELSE IF RLess(fit.err, bestFit.err)
                    THEN fitted(fit, [bestFit EXCEPT !.id = nextId + 1])
                    ELSE fitted(bestFit, fit)
                scaled(newCoeffs) ==
                    fallback(Fit(nextId,
                                 computePointsLoss(points, Len(call.points), components,
                                                   newCoeffs),
                                 newCoeffs))
            IN  scaled(mult(bestFit.coeffs, <<21, 20>>))
    /\ UNCHANGED <<call, reduced, components, points, resolver, sortedPoints,
                   pointsZones>>
    /\ UNCHANGED suspended

\* a comparison that takes the worse candidate for an improvement
fitWorsens(fit, best) == RLess(best.err, fit.err)

\* line 636: bestFit.err > err
fitImproves(fit, best) == RLess(fit.err, best.err)

\* line 619
delta == mult(min(secondBestFit.coeffs, bestFit.coeffs), learningRate)

\* lines 616-654: one refinement epoch
RefineEpoch ==
    /\ pc = "refine"
    /\ i < call.epochs
    /\ ~vectorNormIsZero(delta)
    /\ LET pointsSize == Len(call.points)
           \* lines 636-653
           update(fit) ==
               IF fitImproves(fit, bestFit)
               THEN /\ secondBestFit' = [bestFit EXCEPT !.id = nextId + 1]
                    /\ bestFit' = fit
                    /\ onFitCalls' = Append(onFitCalls, [epoch |-> i + 1, fit |-> fit])
                    /\ learningRate' = lr
               ELSE /\ learningRate' = decay(learningRate)
                    /\ secondBestFit' = IF RLess(fit.err, secondBestFit.err) THEN fit
                                        ELSE secondBestFit
                    /\ UNCHANGED <<bestFit, onFitCalls>>
           \* lines 626-634
           candidate(nextCoeffs1, err1, nextCoeffs2, err2) ==
               update(IF RLess(bestFit.err, err1) /\ RLess(err2, err1)
                      THEN Fit(nextId, err2, nextCoeffs2)
                      ELSE Fit(nextId, err1, nextCoeffs1))
           \* lines 624-628
           losses(nextCoeffs1, nextCoeffs2) ==
               candidate(nextCoeffs1,
                         computePointsLoss(points, pointsSize, components, nextCoeffs1),
                         nextCoeffs2,
                         computePointsLoss(points, pointsSize, components, nextCoeffs2))
       IN  losses(add(bestFit.coeffs, delta), min(bestFit.coeffs, delta))
    /\ nextId' = nextId + 2
    /\ i' = i + 1
    /\ UNCHANGED <<pc, call, reduced, components, points, resolver, sortedPoints,
                   pointsZones, result>>
    /\ UNCHANGED suspended

\* lines 616, 620-622 and 656-662: the loop ends; expansion and return
Expand ==
    /\ pc = "refine"
    /\ i >= call.epochs \/ vectorNormIsZero(delta)
    /\ LET finish(r) ==
            IF r.ok
            THEN /\ bestFit' = [bestFit EXCEPT !.coeffs = r.coeffs]
                 /\ result' = ReturnFit(bestFit.id, bestFit.err, r.coeffs,
                                        getPolynomeComponents(call.deg))
            ELSE /\ result' = Throw(r.error)
                 /\ UNCHANGED bestFit
       IN  finish(IF resolver.has THEN resolveCoeffs(resolver.cl, bestFit.coeffs)
                  ELSE ResolveOk(bestFit.coeffs))
    /\ pc' = "done"
    /\ UNCHANGED <<call, reduced, components, points, resolver, sortedPoints,
                   pointsZones, i, secondBestFit, learningRate, nextId, onFitCalls>>
    /\ UNCHANGED suspended

Next == Start \/ InitEpoch \/ AfterInit \/ RefineEpoch \/ Expand

\* the iterative path: nonlinear(points, { exact:false, ... })
Spec == Init /\ [][Next]_vars

\* ------------------------------------------------------------------------
\* The exact regime: nonlinear(points, { deg, slopeConstraints: { slopes } })
\* ------------------------------------------------------------------------
ExactCall(deg, pts, slopes, truth) ==
    [NoCall EXCEPT !.api = "nonlinear", !.deg = deg, !.points = pts,
                   !.slopes = slopes, !.truth = truth]

\* lines 689-692, exact = true
Exact ==
    /\ pc = "start"
    /\ call.api = "nonlinear"
    /\ call.exact
    /\ LET finish(r) == result' = IF r.ok THEN ReturnCoeffs(r.coeffs) ELSE Throw(r.error)
       IN  finish(nonlinearRegression(call.points,
                    [deg |-> call.deg, components |-> <<>>, slopeComponents |-> <<>>,
                     slopes |-> call.slopes, hasResolve |-> FALSE,
                     resolveCoeffs |-> NoClosure]))
    /\ pc' = "done"
    /\ UNCHANGED <<call, reduced, gdVars>>
    /\ UNCHANGED suspended

\* the sequences of n distinct values of S
Injections(S, n) ==
    {xs \in [1..n -> S] : \A a, b \in 1..n : a # b => xs[a] # xs[b]}

TruthValues == {-1, 0, 2}

\* deg+1 points with pairwise distinct x taken from a polynomial of degree <= deg
InitInterpolation ==
    \E deg \in {1, 2, 3} :
    \E truth \in [1..(deg + 1) -> TruthValues], xs \in Injections(0..deg, deg + 1) :
        LET t == [k \in 1..(deg + 1) |-> Rat(truth[k])]
        IN  Idle(ExactCall(deg,
                [k \in 1..(deg + 1) |-> <<Rat(xs[k]), PolyAt(t, Rat(xs[k]))>>],
                <<>>, t))

\* the documented example: [(0,4),(3,19)], degree 1
InitExample ==
    Idle(ExactCall(1, <<Pt(0, 4), Pt(3, 19)>>, <<>>, <<Rat(5), Rat(4)>>))

\* any points, as many as the coefficients or fewer or more
InitAnyPoints ==
    \E deg \in 1..MaxDeg, pts \in SeqsOf(ConstraintGrid \cup {Pt(2, 0), Pt(2, 2)}, 1, 3) :
        Idle(ExactCall(deg, pts, <<>>, <<>>))

\* slope constraints and points
InitExactSlopes ==
    \E deg \in 1..MaxDeg, pts \in SeqsOf(ConstraintGrid \cup {Pt(2, 2)}, 0, 2),
       slopes \in SeqsOf(SlopeGrid, 1, 2) :
        Idle(ExactCall(deg, pts, slopes, <<>>))

InitExact == InitInterpolation \/ InitExample \/ InitAnyPoints \/ InitExactSlopes

SpecExact == InitExact /\ [][Exact]_vars

\* ------------------------------------------------------------------------
\* A caller of decreaseLinearComplexity
\* ------------------------------------------------------------------------
\* decreaseLinearComplexity(getPolynomeComponents(deg), pointConstraints,
\*     { slopeConstraints: { components: get1stDerivativePolynomeComponents(deg),
\*                           slopes } })
ReduceCall(deg, pcs, slopes, pts) ==
    [NoCall EXCEPT !.api = "decrease", !.deg = deg, !.pointConstraints = pcs,
                   !.hasPointConstraints = TRUE, !.slopes = slopes, !.points = pts]

Decrease ==
    /\ pc = "start"
    /\ call.api = "decrease"
    /\ LET finish(d) ==
            /\ reduced' = d
            /\ IF d.ok THEN pc' = "reduced" /\ UNCHANGED result
               ELSE pc' = "done" /\ result' = Throw(d.error)
       IN  finish(decreaseLinearComplexity(getPolynomeComponents(call.deg),
                    call.pointConstraints,
                    get1stDerivativePolynomeComponents(call.deg), call.slopes))
    /\ UNCHANGED <<call, gdVars>>
    /\ UNCHANGED suspended

\* nonlinear(remap(points), { components, resolveCoeffs })
SolveReduced ==
    /\ pc = "reduced"
    /\ LET finish(r) == result' = IF r.ok THEN ReturnCoeffs(r.coeffs) ELSE Throw(r.error)
       IN  finish(nonlinearRegression(remap(reduced.remap, call.points),
                    ExactOptions(reduced.components, TRUE, reduced.resolveCoeffs)))
    /\ pc' = "done"
    /\ UNCHANGED <<call, reduced, gdVars>>
    /\ UNCHANGED suspended

\* what the caller may give to resolveCoeffs: nothing, or coefficients
ResolveArgs ==
    {Undefined} \cup SeqsOf({Rat(1), Rat(2)}, 1, 2) \cup {<<EmptyEntry>>}

\* resolveCoeffs(coeffs)
Resolve ==
    /\ pc = "reduced"
    /\ \E coeffs \in ResolveArgs :
        /\ call' = [call EXCEPT !.coeffs = coeffs]
        /\ LET finish(r) ==
                result' = IF r.ok THEN ReturnCoeffs(r.coeffs) ELSE Throw(r.error)
           IN  finish(resolveCoeffs(reduced.resolveCoeffs, coeffs))
    /\ pc' = "resolved"
    /\ UNCHANGED <<reduced, gdVars>>
    /\ UNCHANGED suspended

\* the basis reduced with one of deg+1 or deg+2 points, the others left to solve
InitOnePoint ==
    \E deg \in 1..MaxDeg :
    \E pts \in SeqsOf({Pt(x, y) : x \in 0..2, y \in 0..1}, deg + 1, 3) :
    \E k \in 1..Len(pts) :
        Idle(ReduceCall(deg, <<pts[k]>>, <<>>,
                        [j \in 1..(Len(pts) - 1) |-> pts[IF j < k THEN j ELSE j + 1]]))

\* point constraints only: none, fewer than, as many as or more than the
\* coefficients
InitPoints ==
    \E deg \in 1..MaxDeg, pcs \in SeqsOf({Pt(x, y) : x \in 0..2, y \in 0..1}, 0, 3) :
        Idle(ReduceCall(deg, pcs, <<>>, <<>>))

\* slope constraints, with or without point constraints
InitReduceSlopes ==
    \E deg \in 1..MaxDeg, pcs \in SeqsOf(ConstraintGrid, 0, 2),
       slopes \in SeqsOf(SlopeGrid, 1, 2) :
        Idle(ReduceCall(deg, pcs, slopes, <<>>))

InitReduce == InitOnePoint \/ InitPoints \/ InitReduceSlopes

NextReduce == Decrease \/ SolveReduced \/ Resolve

SpecReduce == InitReduce /\ [][NextReduce]_vars

\* ------------------------------------------------------------------------
\* Properties of the reduction (SpecReduce)
\* ------------------------------------------------------------------------
NoRepeat(pts) == \A a, b \in 1..Len(pts) : a # b => pts[a] # pts[b]

\* the unreduced system of a caller who reduced with one point: the points left
\* to solve, then the eliminating point
AllPoints == call.points \o call.pointConstraints
Direct == nonlinearRegression(AllPoints, ExactOptions(getPolynomeComponents(call.deg),
                                                      FALSE, NoClosure))
\* ... all on the curve of one coefficient vector, no point given twice
Consistent ==
    /\ NoRepeat(AllPoints)
    /\ Direct.ok
    /\ \A k \in 1..Len(AllPoints) : PassesThrough(Direct.coeffs, AllPoints[k])

OnePointReduced ==
    /\ call.api = "decrease"
    /\ pc = "done"
    /\ reduced.ok
    /\ Len(call.pointConstraints) = 1
    /\ call.slopes = <<>>

\* C1: reduction round-trip.  A basis of N >= 2 components is reduced with one
\* point of a point set that lies on the curve of one coefficient vector; the
\* exact solve of remap(the other points) against the reduced components,
\* followed by resolveCoeffs, gives the N coefficients, in the order of the
\* original basis, that the exact solve of the unreduced system gives.
C1_RoundTrip ==
    (OnePointReduced /\ Consistent)
        => /\ result.kind = "coeffs"
           /\ Len(result.coeffs) = call.deg + 1
           /\ result.coeffs = Direct.coeffs

\* a quadratic reduced with a point away from x = 0 and y = 0, so that the
\* other points are moved by remap
C1_Witness ==
    /\ OnePointReduced
    /\ Consistent
    /\ call.deg = 2
    /\ call.pointConstraints[1] = Pt(1, 1)
    /\ remap(reduced.remap, call.points) # call.points
    /\ result.coeffs = Direct.coeffs
    /\ result.coeffs[1] # Zero

\* ------------------------------------------------------------------------
\* Point constraints in surplus (SpecSurplus)
\* ------------------------------------------------------------------------
\* callers of decreaseLinearComplexity and iterative calls, with as many point
\* constraints as coefficients, fewer or more
SpecSurplus ==
    (InitPoints \/ InitReduceSlopes \/ InitSurplus) /\ [][NextReduce \/ Next]_vars

\* the size of the basis when the point loop starts
SizeAfterSlopes == call.deg + 1 - Len(call.slopes)
\* the point constraints handed to the point loop: the iterative path drops the
\* repeated ones first
UniqueConstraints ==
    IF call.api = "decrease" THEN call.pointConstraints
    ELSE uniquePointConstraints(call.pointConstraints)
Surplus ==
    /\ pc # "start"
    /\ Len(call.slopes) <= call.deg
    /\ Len(UniqueConstraints) > SizeAfterSlopes

C10_FullResolution ==
    (/\ call.api = "decrease"
     /\ pc = "resolved"
     /\ call.coeffs = Undefined
     /\ Len(call.pointConstraints) >= 1
     /\ Len(call.pointConstraints) = SizeAfterSlopes)
        => /\ reduced.components = <<>>
           /\ result.kind = "coeffs"
           /\ Len(result.coeffs) = call.deg + 1
           /\ \A k \in 1..Len(call.pointConstraints) :
                PassesThrough(result.coeffs, call.pointConstraints[k])
           /\ \A k \in 1..Len(call.slopes) : HasSlope(result.coeffs, call.slopes[k])
           /\ call.slopes = <<>> =>
                LET exact == nonlinearRegression(call.pointConstraints,
                                ExactOptions(getPolynomeComponents(call.deg), FALSE,
                                             NoClosure))
                IN  exact.ok /\ result.coeffs = exact.coeffs

\* ------------------------------------------------------------------------
\* Properties of the exact regime (SpecExact)
\* ------------------------------------------------------------------------
DistinctXs(pts) == \A a, b \in 1..Len(pts) : a # b => pts[a][1] # pts[b][1]

ExactDone == call.api = "nonlinear" /\ call.exact /\ pc = "done"

\* C2: exact interpolation.  For deg+1 points with pairwise distinct x, the
\* exact call returns deg+1 coefficients, the highest power first, of the
\* polynomial through the points: the coefficients the points were computed
\* from, when they were.
C2_ExactInterpolation ==
    (/\ ExactDone
     /\ call.slopes = <<>>
     /\ Len(call.points) = call.deg + 1
     /\ DistinctXs(call.points))
        => /\ result.kind = "coeffs"
           /\ Len(result.coeffs) = call.deg + 1
           /\ \A k \in 1..Len(call.points) : PassesThrough(result.coeffs, call.points[k])
           /\ call.truth # <<>> => result.coeffs = call.truth

\* the documented example
C2_Witness ==
    /\ ExactDone
    /\ call.deg = 1
    /\ call.points = <<Pt(0, 4), Pt(3, 19)>>
    /\ result.kind = "coeffs"
    /\ result.coeffs = <<Rat(5), Rat(4)>>

\* C8: whenever the exact call is given slopes and returns coefficients, the
\* first derivative of the returned polynomial is dy/dx at x for every slope
\* [x, dy/dx] given.
C8_SlopesSatisfied ==
    (ExactDone /\ call.slopes # <<>> /\ result.kind = "coeffs")
        => /\ Len(result.coeffs) = call.deg + 1
           /\ \A k \in 1..Len(call.slopes) : HasSlope(result.coeffs, call.slopes[k])

\* a quadratic with two slopes, at two places, and a point
C8_Witness ==
    /\ ExactDone
    /\ call.deg = 2
    /\ Len(call.slopes) = 2
    /\ Len(call.points) = 1
    /\ call.slopes[2][2] # Zero
    /\ result.kind = "coeffs"
    /\ result.coeffs[1] # Zero
    /\ \A k \in 1..2 : HasSlope(result.coeffs, call.slopes[k])

\* C9: in the exact regime, when the slopes and the points together are as many
\* as the coefficients, the returned polynomial passes through every point
\* given, wherever it is, and has the slopes.
C9_PointsHonouredWithSlopes ==
    (/\ ExactDone
     /\ call.slopes # <<>>
     /\ Len(call.slopes) + Len(call.points) = call.deg + 1
     /\ result.kind = "coeffs")
        => /\ \A k \in 1..Len(call.points) : PassesThrough(result.coeffs, call.points[k])
           /\ \A k \in 1..Len(call.slopes) : HasSlope(result.coeffs, call.slopes[k])

\* ------------------------------------------------------------------------
\* Properties of the iterative path (Spec)
\* ------------------------------------------------------------------------
IterativeDone == call.api = "nonlinear" /\ ~call.exact /\ pc = "done"
Returned == result.kind \in {"fit", "coeffs"}

\* the mean squared error of the polynomial of the coefficients coeffs over pts
MeanSquaredError(coeffs, pts) ==
    RDiv(RSum([k \in 1..Len(pts) |->
                LET d == RSub(PolyAt(coeffs, pts[k][1]), pts[k][2])
                IN  RMul(d, d)]),
         Rat(Len(pts)))

\* C3: every successful iterative call given point constraints returns a Fit
\* whose evaluator fy has fy(x) = y at every constrained point [x, y].
C3_PointConstraintsSatisfied ==
    (/\ IterativeDone
     /\ call.hasPointConstraints
     /\ call.pointConstraints # <<>>
     /\ Returned)
        => /\ result.kind = "fit"
           /\ \A k \in 1..Len(call.pointConstraints) :
                PassesThrough(result.coeffs, call.pointConstraints[k])

\* C5: every onFit invocation after the first reports an error strictly lower
\* than the invocation before it, and the error of the returned fit is never
\* greater than the error reported at epoch 0.
C5_MonotonicImprovement ==
    /\ \A k \in 2..Len(onFitCalls) :
            RLess(onFitCalls[k].fit.err, onFitCalls[k - 1].fit.err)
    /\ (IterativeDone /\ result.kind = "fit" /\ onFitCalls # <<>>)
            => ~RLess(onFitCalls[1].fit.err, result.err)

\* a call whose two refinement epochs both improved the fit
C5_Witness ==
    /\ IterativeDone
    /\ result.kind = "fit"
    /\ Len(onFitCalls) = 3
    /\ onFitCalls[1].epoch = 0
    /\ RLess(onFitCalls[3].fit.err, onFitCalls[2].fit.err)
    /\ RLess(result.err, onFitCalls[1].fit.err)

\* C6: every successful iterative call returns a Fit record
\* { err, coeffs, components, fy } whose coefficients are as many as the
\* components of the original basis, on every return path.
C6_ReturnsFullFit ==
    (IterativeDone /\ Returned)
        => /\ result.kind = "fit"
           /\ Len(result.coeffs) = call.deg + 1
           /\ result.components = getPolynomeComponents(call.deg)

\* C7: the error of every Fit the iterative path returns is the mean squared
\* error of the returned coefficients, on the original basis, over the
\* original points, and is not negative.
C7_ErrorIsMeanSquaredError ==
    (IterativeDone /\ result.kind = "fit")
        => /\ result.err = MeanSquaredError(result.coeffs, call.points)
           /\ ~RLess(result.err, Zero)

\* ------------------------------------------------------------------------
\* One elimination on a caller's own basis (SpecEliminate)
\* ------------------------------------------------------------------------
\* decreaseLinearComplexity(components, [point]), the basis being the caller's
EliminateCall(pt) ==
    [NoCall EXCEPT !.api = "eliminate", !.hasPointConstraints = TRUE,
                   !.pointConstraints = <<pt>>]

\* the basis functions 1, x, 2x and x - 1
BasisFunctions == {<<One>>, <<Zero, One>>, <<Zero, Rat(2)>>, <<Rat(-1), One>>}

\* abscissas at 0 and 1 and at distances from them below, at and above EPSILON
NearAbscissas ==
    {Zero, One, <<1, 2 * EPSILON_INV>>, <<1, EPSILON_INV>>, <<-1, EPSILON_INV>>,
     <<1, EPSILON_INV - 1>>, <<2, EPSILON_INV>>,
     <<EPSILON_INV + 1, EPSILON_INV>>, <<EPSILON_INV + 2, EPSILON_INV>>}

InitEliminate ==
    \E basis \in SeqsOf(BasisFunctions, 1, 2), x \in NearAbscissas, y \in {0, 1} :
        /\ pc = "start"
        /\ call = EliminateCall(<<x, Rat(y)>>)
        /\ reduced = NoReduced
        /\ components = basis
        /\ points = <<>>
        /\ resolver = [has |-> FALSE, cl |-> NoClosure]
        /\ sortedPoints = <<>>
        /\ pointsZones = <<>>
        /\ i = 0
        /\ bestFit = NoFit
        /\ secondBestFit = NoFit
        /\ learningRate = Zero
        /\ nextId = 1
        /\ onFitCalls = <<>>
        /\ result = NoResult
        /\ suspended = <<>>

Eliminate ==
    /\ pc = "start"
    /\ call.api = "eliminate"
    /\ LET finish(d) ==
            /\ reduced' = d
            /\ result' = IF d.ok THEN NoResult ELSE Throw(d.error)
       IN  finish(decreaseLinearComplexity(components, call.pointConstraints, <<>>, <<>>))
    /\ pc' = "done"
    /\ UNCHANGED <<call, gdVars>>
    /\ UNCHANGED suspended

SpecEliminate == InitEliminate /\ [][Eliminate]_vars

EPSILON == <<1, EPSILON_INV>>
\* the value, at the point, of the basis function being eliminated
Eliminated == Call(components[Len(components)], call.pointConstraints[1][1])
Eliminating == call.api = "eliminate" /\ pc = "done"
\* |v| > EPSILON, as 1/|v| < 1/EPSILON
ExceedsEpsilon(v) == v[1] # 0 /\ v[2] \div Abs(v[1]) < EPSILON_INV

\* C11: the reduction of a basis with a point raises the unstable-system error
\* and returns no reduced system when the last (or sole) basis function has a
\* magnitude <= EPSILON at the point, and only then: with a magnitude > EPSILON
\* it returns the basis reduced by one function.
C11_DegenerateDetection ==
    Eliminating =>
        IF ExceedsEpsilon(Eliminated)
        THEN /\ reduced.ok
             /\ Len(reduced.components) = Len(components) - 1
             /\ result.kind = "none"
        ELSE /\ ~reduced.ok
             /\ reduced.components = <<>>
             /\ result = Throw("unstable")

\* the function x - 1 eliminated at 1 + EPSILON: not zero, and rejected
C11_Witness ==
    /\ Eliminating
    /\ Len(components) = 2
    /\ Eliminated = EPSILON
    /\ result = Throw("unstable")

\* ------------------------------------------------------------------------
\* The restarts and the onFit protocol (Spec)
\* ------------------------------------------------------------------------
\* the call went past the pre-reduction, to the randomized initialization
ReachedInitialization == call.api = "nonlinear" /\ ~call.exact /\ sortedPoints # <<>>

\* C12: in every iterative call that reaches the randomized initialization,
\* onFit is invoked once with the epoch index 0, before any other invocation
\* and before the refinement; every later invocation carries an index of
\* 1..epochs greater than the index of the invocation before it.
C12_OnFitProtocol ==
    /\ \A k \in 1..Len(onFitCalls) :
            IF k = 1 THEN onFitCalls[k].epoch = 0
            ELSE /\ onFitCalls[k].epoch \in 1..call.epochs
                 /\ onFitCalls[k].epoch > onFitCalls[k - 1].epoch
    /\ (ReachedInitialization /\ pc \in {"refine", "done"}) => onFitCalls # <<>>

\* C13: whichever restarts fail on a singular sample, one, several or all of
\* them, the call does not fail.
C13_RestartRecovery ==
    (ReachedInitialization /\ pc = "done") => result.kind # "error"

\* ------------------------------------------------------------------------
\* Calls with few points, exact and iterative (SpecFew)
\* ------------------------------------------------------------------------
\* iterative calls with no point, one or two, with or without constraints
InitFew ==
    \E deg \in 1..MaxDeg, pts \in SeqsOf(ConstraintGrid, 0, 2), hasPcs \in BOOLEAN,
       pcs \in SeqsOf(ConstraintGrid, 0, 1), slopes \in SeqsOf(SlopeGrid, 0, 1) :
        /\ hasPcs \/ pcs = <<>>
        /\ Idle(Iterative(deg, pts, hasPcs, pcs, slopes))

SpecFew == (InitFew \/ InitSlopes \/ InitAnyPoints \/ InitExactSlopes)
                /\ [][Exact \/ Next]_vars

\* the missing-points error; a call without any point is refused on entry
\* for its missing argument 'points' (lines 183-184 and 433-434), which is
\* counted as the same failure
MissingPoints ==
    /\ result.kind = "error"
    /\ \/ result.error = "missing_points"
       \/ result.error = "input" /\ call.points = <<>>

\* the constraints can be folded: the slopes do not exceed the derivative
\* basis and no elimination is unstable
Reducible ==
    decreaseLinearComplexity(getPolynomeComponents(call.deg),
        IF call.exact THEN <<>> ELSE uniquePointConstraints(call.pointConstraints),
        get1stDerivativePolynomeComponents(call.deg), call.slopes).ok

\* the size of the basis left by the constraints: the slopes in the exact
\* path, the slopes and the distinct point constraints in the iterative path
RemainingSize ==
    Max(0, call.deg + 1 - Len(call.slopes)
            - (IF call.exact THEN 0 ELSE Len(uniquePointConstraints(call.pointConstraints))))

\* C14: a call fails with the missing-points error exactly when the points
\* supplied are fewer than the functions of the basis (of the basis the
\* constraints leave); it does so before any solve, sampling or onFit
\* invocation and returns nothing.
C14_MissingPoints ==
    (call.api = "nonlinear" /\ pc = "done") =>
        /\ MissingPoints <=> \/ call.points = <<>>
                             \/ Reducible /\ Len(call.points) < RemainingSize
        /\ MissingPoints => /\ sortedPoints = <<>>
                            /\ onFitCalls = <<>>
                            /\ ~bestFit.def
                            /\ result.coeffs = <<>>

\* ------------------------------------------------------------------------
\* Slope constraints in the iterative path (Spec)
\* ------------------------------------------------------------------------
\* C15: an iterative call given slopes, with or without pointConstraints, does
\* not fail on the absence of pointConstraints, and what it returns is a Fit
\* whose derivative is dy/dx at x for every slope [x, dy/dx] supplied.
C15_SlopesInIterativePath ==
    (IterativeDone /\ call.slopes # <<>>) =>
        /\ ~(~call.hasPointConstraints /\ ~ReachedInitialization
                /\ result.kind = "error" /\ result.error = "type_error")
        /\ Returned =>
            /\ result.kind = "fit"
            /\ \A k \in 1..Len(call.slopes) : HasSlope(result.coeffs, call.slopes[k])

\* ------------------------------------------------------------------------
\* The points the exact solve reads (SpecExact)
\* ------------------------------------------------------------------------
\* an exact call without slopes that has at least as many points as the basis
\* has functions
ExactWithEnoughPoints ==
    /\ ExactDone
    /\ call.slopes = <<>>
    /\ Len(call.points) >= call.deg + 1

\* the same call made with the first deg+1 points alone
FirstPointsAlone ==
    nonlinearRegression(SubSeq(call.points, 1, call.deg + 1),
        [deg |-> call.deg, components |-> <<>>, slopeComponents |-> <<>>,
         slopes |-> <<>>, hasResolve |-> FALSE, resolveCoeffs |-> NoClosure])

\* C16: in the exact path without slope constraints a call returns what the
\* call with its first len(basis) points alone returns, coefficients or
\* failure; hence two calls whose point lists agree on these entries return
\* the same, whatever their other points are.
C16_OnlyFirstPointsRead ==
    ExactWithEnoughPoints =>
        result = IF FirstPointsAlone.ok THEN ReturnCoeffs(FirstPointsAlone.coeffs)
                 ELSE Throw(FirstPointsAlone.error)

\* a line through the first two of three points that misses the third
C16_Witness ==
    /\ ExactWithEnoughPoints
    /\ call.deg = 1
    /\ Len(call.points) = 3
    /\ result.kind = "coeffs"
    /\ result.coeffs = FirstPointsAlone.coeffs
    /\ PassesThrough(result.coeffs, call.points[1])
    /\ PassesThrough(result.coeffs, call.points[2])
    /\ ~PassesThrough(result.coeffs, call.points[3])

\* ------------------------------------------------------------------------
\* The fit objects handed to onFit (Spec)
\* ------------------------------------------------------------------------
\* C17: a fit object handed to onFit is not modified afterwards: the object of
\* that identity, whether it is still bestFit, has become secondBestFit or is
\* the object returned, has the coefficients and the error it had when it was
\* handed over, and no field it did not have.
C17_ReportedFitsImmutable ==
    \A k \in 1..Len(onFitCalls) :
        LET fit == onFitCalls[k].fit
        IN  /\ bestFit.id = fit.id => bestFit = fit
            /\ secondBestFit.id = fit.id => secondBestFit = fit
            /\ (result.kind = "fit" /\ result.id = fit.id) =>
                    /\ result.coeffs = fit.coeffs
                    /\ result.err = fit.err
                    /\ result.components = <<>>

\* ------------------------------------------------------------------------
\* Two invocations, interleaved (SpecInterleaved)
\* ------------------------------------------------------------------------
\* Everything nonlinearGradientDescentRegression works on is declared inside
\* the function (lines 432-470, 574-577, 615): each invocation has its own.
\* Frame is the locals of the running invocation, suspended holds the locals
\* of the other one while it is not running: an invocation started from inside
\* an onFit callback of the first, or one running beside it.
Frame ==
    [pc |-> pc, call |-> call, reduced |-> reduced, components |-> components,
     points |-> points, resolver |-> resolver, sortedPoints |-> sortedPoints,
     pointsZones |-> pointsZones, i |-> i, bestFit |-> bestFit,
     secondBestFit |-> secondBestFit, learningRate |-> learningRate,
     nextId |-> nextId, onFitCalls |-> onFitCalls, result |-> result]

\* the locals of an invocation of c that has not begun
IdleFrame(c) ==
    [pc |-> "start", call |-> c, reduced |-> NoReduced, components |-> <<>>,
     points |-> <<>>, resolver |-> [has |-> FALSE, cl |-> NoClosure],
     sortedPoints |-> <<>>, pointsZones |-> <<>>, i |-> 0, bestFit |-> NoFit,
     secondBestFit |-> NoFit, learningRate |-> Zero, nextId |-> 1,
     onFitCalls |-> <<>>, result |-> NoResult]

\* a learning rate kept in one place for all the invocations
sharedLearningRate(frame) == learningRate

\* line 615: let learningRate = lr, a local of the invocation
localLearningRate(frame) == frame.learningRate

\* the other invocation runs on: the running one keeps its locals
Switch ==
    /\ suspended # <<>>
    /\ suspended' = <<Frame>>
    /\ LET resume(frame) ==
            /\ pc' = frame.pc
            /\ call' = frame.call
            /\ reduced' = frame.reduced
            /\ components' = frame.components
            /\ points' = frame.points
            /\ resolver' = frame.resolver
            /\ sortedPoints' = frame.sortedPoints
            /\ pointsZones' = frame.pointsZones
            /\ i' = frame.i
            /\ bestFit' = frame.bestFit
            /\ secondBestFit' = frame.secondBestFit
            /\ learningRate' = localLearningRate(frame)
            /\ nextId' = frame.nextId
            /\ onFitCalls' = frame.onFitCalls
            /\ result' = frame.result
       IN  resume(suspended[1])

\* the learning rates a caller configures: none (the default) or 0.25
LearningRates == {Zero, <<1, 4>>}

InterleavedSamples == {Sampled(<<0, 2, 1>>), Sampled(<<1, 0, 2>>)}

InterleavedCalls ==
    {[Iterative(1, pts, pcs # <<>>, pcs, <<>>) EXCEPT !.learningRate = rate] :
        pts \in InterleavedSamples, pcs \in {<<>>, <<Pt(0, 0)>>},
        rate \in LearningRates}

InitInterleaved ==
    \E first \in InterleavedCalls, second \in InterleavedCalls :
        /\ Fresh(first)
        /\ suspended = <<IdleFrame(second)>>

NextInterleaved == Next \/ Switch

SpecInterleaved == InitInterleaved /\ [][NextInterleaved]_vars


\* line 438 for the call c
ConfiguredRate(c) == IF c.learningRate[1] = 0 THEN LEARNING_RATE ELSE c.learningRate

\* the invocation of these locals is about to run its first refinement epoch
StartsRefinement(frame) == frame.pc = "refine" /\ frame.i = 0

\* C18: invocations share nothing.  Each starts its refinement at the learning
\* rate of its own call; when the other invocation takes over, the running one
\* is left with exactly the locals it had and gets them back unchanged, so it
\* goes on as it would alone; and no step of an invocation changes the arrays
\* its caller passed.
C18_Independence ==
    /\ [](/\ StartsRefinement(Frame) => learningRate = ConfiguredRate(call)
          /\ \A k \in 1..Len(suspended) :
                StartsRefinement(suspended[k]) =>
                    suspended[k].learningRate = ConfiguredRate(suspended[k].call))
    /\ [][IF suspended' # suspended
          THEN Frame' = suspended[1] /\ suspended' = <<Frame>>
          ELSE /\ call'.points = call.points
               /\ call'.pointConstraints = call.pointConstraints]_vars

\* the first invocation has missed a refinement epoch and goes on at a decayed
\* rate, while the second, configured otherwise, starts its own refinement
C18_Witness ==
    /\ suspended # <<>>
    /\ suspended[1].pc = "refine"
    /\ suspended[1].i = 1
    /\ suspended[1].learningRate = decay(ConfiguredRate(suspended[1].call))
    /\ StartsRefinement(Frame)
    /\ ConfiguredRate(call) # ConfiguredRate(suspended[1].call)
    /\ learningRate = ConfiguredRate(call)


\* ------------------------------------------------------------------------
\* The size of the reduced basis (SpecSurplus)
\* ------------------------------------------------------------------------
\* decreaseLinearComplexity has returned to its caller
DecreaseReturned == call.api = "decrease" /\ pc # "start" /\ reduced.ok

\* C19: when decreaseLinearComplexity returns, for a basis of N functions, s
\* slope constraints (s <= N-1) and p point constraints, the components it
\* returns are N - s - p, and none when the constraints are that many or more:
\* one function less per elimination.
C19_DimensionAccounting ==
    (DecreaseReturned /\ Len(call.slopes) <= call.deg)
        => Len(reduced.components)
                = Max(0, call.deg + 1 - Len(call.slopes) - Len(call.pointConstraints))


\* a parabola, one slope and one point: one function is left
C19_Witness ==
    /\ DecreaseReturned
    /\ call.deg = 2
    /\ Len(call.slopes) = 1
    /\ Len(call.pointConstraints) = 1
    /\ Len(reduced.components) = 1


\* ------------------------------------------------------------------------
\* Singular systems in the exact regime (SpecExact)
\* ------------------------------------------------------------------------
\* the exact call without slopes, with points enough: the first deg+1 points
\* and the design matrix A[i][j] = components[j](x_i) built from them
FirstPoints == SubSeq(call.points, 1, call.deg + 1)
DesignMatrix(pts) ==
    [a \in 1..Len(pts) |-> [b \in 1..Len(pts) |->
        Call(getPolynomeComponents(Len(pts) - 1)[b], pts[a][1])]]

\* sqrt(q) > EPSILON, for a square q >= 0 of a pivot: q > EPSILON^2
PivotExceedsEpsilon(q) ==
    q[1] > 0 /\ ((q[2] \div q[1]) \div EPSILON_INV) < EPSILON_INV

PivotsExceedEpsilon(QR) == \A k \in 1..Len(QR.D) : PivotExceedsEpsilon(QR.D[k])

\* C20: in the exact solve, when two of the first deg+1 points share their x
\* (the design matrix is rank-deficient) the call fails with the
\* singular-system error and returns no coefficients; and whenever it returns
\* coefficients, every pivot R[i][i] it divided by exceeds EPSILON and every
\* coefficient is a number.
C20_SingularDetection ==
    (ExactDone /\ call.slopes = <<>> /\ Len(call.points) >= call.deg + 1)
        => /\ ~DistinctXs(FirstPoints)
                => (result = Throw("singular") /\ result.coeffs = <<>>)
           /\ result.kind = "coeffs"
                => /\ PivotsExceedEpsilon(qr(DesignMatrix(FirstPoints)))
                   /\ \A k \in 1..Len(result.coeffs) : IsNumber(result.coeffs[k])

\* a parabola asked through three points, the first and the third at the same x
C20_Witness ==
    /\ ExactDone
    /\ call.slopes = <<>>
    /\ call.deg = 2
    /\ Len(call.points) = 3
    /\ call.points[1][1] = call.points[3][1]
    /\ call.points[1][1] # call.points[2][1]
    /\ call.points[1][2] # call.points[3][2]
    /\ ~PivotsExceedEpsilon(qr(DesignMatrix(FirstPoints)))
    /\ result = Throw("singular")


\* ------------------------------------------------------------------------
\* The learning-rate schedule (SpecDecay)
\* ------------------------------------------------------------------------
\* how many epochs in a row the schedule is followed
MaxDecays == 12

\* the rates the callers configure here: none (the default), the hundredths
Hundredth(k) == Norm(k, 100)
\* and rates off the hundredths: 0.004, 0.005, 0.014, 0.255
OffHundredths == {<<1, 250>>, <<1, 200>>, <<7, 500>>, <<51, 200>>}
DecayRates == {Zero} \cup {Hundredth(k) : k \in 1..100} \cup OffHundredths

\* the refinement loop is entered (line 615) at the configured rate
InitDecay ==
    \E rate \in DecayRates :
        LET enter(c) ==
                /\ pc = "refine"
                /\ call = c
                /\ learningRate = ConfiguredRate(c)
                /\ reduced = NoReduced
                /\ components = <<>>
                /\ points = <<>>
                /\ resolver = [has |-> FALSE, cl |-> NoClosure]
                /\ sortedPoints = <<>>
                /\ pointsZones = <<>>
                /\ i = 0
                /\ bestFit = NoFit
                /\ secondBestFit = NoFit
                /\ nextId = 1
                /\ onFitCalls = <<>>
                /\ result = NoResult
                /\ suspended = <<>>
        IN  enter([Iterative(1, <<>>, FALSE, <<>>, <<>>)
                      EXCEPT !.learningRate = rate, !.epochs = MaxDecays])

\* lines 642-650: an epoch whose candidate does not improve on bestFit
NonImprovingEpoch ==
    /\ pc = "refine"
    /\ i < call.epochs
    /\ learningRate' = decay(learningRate)
    /\ i' = i + 1
    /\ UNCHANGED <<pc, call, reduced, components, points, resolver, sortedPoints,
                   pointsZones, bestFit, secondBestFit, nextId, onFitCalls, result,
                   suspended>>

SpecDecay == InitDecay /\ [][NonImprovingEpoch]_vars

\* a rate of k hundredths after one non-improving epoch, in hundredths
NextHundredths(k) ==
    IF k > 20 THEN k - 10 ELSE IF k > 5 THEN k - 5 ELSE IF k > 1 THEN k - 1 ELSE k
RECURSIVE HundredthsAfter(_, _)
HundredthsAfter(k, n) == IF n = 0 THEN k ELSE NextHundredths(HundredthsAfter(k, n - 1))

\* the configured rate of the call, in hundredths
ConfiguredHundredths == (ConfiguredRate(call)[1] * 100) \div ConfiguredRate(call)[2]

\* from the default 0.5: the rate at the start, then after 1, 2, ... epochs
DefaultSchedule == <<50, 40, 30, 20, 15, 10, 5, 4, 3, 2, 1, 1, 1>>

\* C21: after n non-improving epochs in a row, a rate configured in hundredths
\* has lost 0.1 per epoch while above 0.2, then 0.05 per epoch while above 0.05,
\* then 0.01 per epoch while above 0.01, and then stays; from the default 0.5 it
\* is 0.4, 0.3, 0.2, 0.15, 0.1, 0.05, 0.04, 0.03, 0.02, 0.01 and 0.01 from then
\* on, never 0.
C21_DecaySchedule ==
    (pc = "refine" /\ call.points = <<>> /\ call.learningRate \notin OffHundredths)
        => /\ learningRate = Hundredth(HundredthsAfter(ConfiguredHundredths, i))
           /\ call.learningRate = Zero
                => /\ learningRate = Hundredth(DefaultSchedule[Min(i, 12) + 1])
                   /\ learningRate # Zero

\* the default rate after twelve non-improving epochs
C21_Witness ==
    /\ pc = "refine"
    /\ call.points = <<>>
    /\ call.learningRate = Zero
    /\ i = 12
    /\ learningRate = <<1, 100>>


\* ------------------------------------------------------------------------
\* Calls with a configured learning rate (SpecRates)
\* ------------------------------------------------------------------------
\* options.learningRate: none (the default) or 0.25
ConfiguredRates == {Zero, <<1, 4>>}

RatedSamples == InterleavedSamples \cup {Sampled(<<0, 1, 0>>), Sampled(<<2, 0, 2>>)}

InitRates ==
    \E deg \in 1..MaxDeg, pts \in RatedSamples, pcs \in {<<>>, <<Pt(0, 0)>>},
       rate \in ConfiguredRates :
        Idle([Iterative(deg, pts, pcs # <<>>, pcs, <<>>) EXCEPT !.learningRate = rate])

SpecRates == InitRates /\ [][Next]_vars

\* the candidate of the epoch (lines 624-634): bestFit plus delta, or bestFit
\* minus delta when plus is worse than bestFit and minus is better than plus
LossOf(coeffs) == computePointsLoss(points, Len(call.points), components, coeffs)
MinusChosen ==
    /\ RLess(bestFit.err, LossOf(add(bestFit.coeffs, delta)))
    /\ RLess(LossOf(min(bestFit.coeffs, delta)), LossOf(add(bestFit.coeffs, delta)))
CandidateCoeffs ==
    IF MinusChosen THEN min(bestFit.coeffs, delta) ELSE add(bestFit.coeffs, delta)
CandidateErr == LossOf(CandidateCoeffs)

SameFit(f, g) == f.def = g.def /\ f.err = g.err /\ f.coeffs = g.coeffs

\* C22: in a refinement epoch whose candidate has an error strictly below
\* bestFit's, the old bestFit becomes secondBestFit, the candidate becomes
\* bestFit, onFit is called once with the new bestFit and the epoch counted
\* from 1, and the learning rate is the configured one again; in any other
\* epoch bestFit stays, onFit is not called, and secondBestFit becomes the
\* candidate only when the candidate's error is strictly below its own.
C22_ImprovementStep ==
    [][(pc = "refine" /\ i' = i + 1) =>
          IF RLess(CandidateErr, bestFit.err)
          THEN /\ SameFit(secondBestFit', bestFit)
               /\ bestFit'.err = CandidateErr
               /\ bestFit'.coeffs = CandidateCoeffs
               /\ onFitCalls' = Append(onFitCalls, [epoch |-> i + 1, fit |-> bestFit'])
               /\ learningRate' = ConfiguredRate(call)
          ELSE /\ bestFit' = bestFit
               /\ onFitCalls' = onFitCalls
               /\ IF RLess(CandidateErr, secondBestFit.err)
                  THEN /\ secondBestFit'.err = CandidateErr
                       /\ secondBestFit'.coeffs = CandidateCoeffs
                  ELSE secondBestFit' = secondBestFit]_vars

\* both epochs improve, at a configured rate: the fit of the first is the
\* second best after the second
C22_Witness ==
    /\ pc = "refine"
    /\ i = 2
    /\ call.learningRate = <<1, 4>>
    /\ Len(onFitCalls) = 3
    /\ onFitCalls[3] = [epoch |-> 2, fit |-> bestFit]
    /\ SameFit(secondBestFit, onFitCalls[2].fit)
    /\ RLess(bestFit.err, secondBestFit.err)
    /\ learningRate = <<1, 4>>


\* C23: whatever rate r > 0 the caller configures, the learning rate of the
\* refinement loop is above 0 and at most r.
C23_RateWithinBounds ==
    pc = "refine"
        => /\ RLess(Zero, learningRate)
           /\ ~RLess(ConfiguredRate(call), learningRate)


\* ------------------------------------------------------------------------
\* The restart loop on given outcomes (SpecTrack)
\* ------------------------------------------------------------------------
\* what a restart comes to: the error of the fit it found, or a failed solve
SolveFailed == <<1, 0>>
RestartOutcomes == {Zero, One, Rat(2), SolveFailed}
MaxRestarts == 4

InitTrack ==
    \E outcomes \in SeqsOf(RestartOutcomes, 2, MaxRestarts) :
        LET enter(c) ==
                /\ pc = "init"
                /\ call = c
                /\ learningRate = Zero
                /\ reduced = NoReduced
                /\ components = <<>>
                /\ points = <<>>
                /\ resolver = [has |-> FALSE, cl |-> NoClosure]
                /\ sortedPoints = <<>>
                /\ pointsZones = <<>>
                /\ i = 0
                /\ bestFit = NoFit
                /\ secondBestFit = NoFit
                /\ nextId = 1
                /\ onFitCalls = <<>>
                /\ result = NoResult
                /\ suspended = <<>>
        IN  enter([Iterative(1, <<>>, FALSE, <<>>, <<>>)
                      EXCEPT !.restarts = outcomes, !.initEpochs = Len(outcomes)])

\* lines 578-595, the restart i+1 coming to call.restarts[i+1]; the fit of
\* restart k carries the coefficient k
TrackRestart ==
    /\ pc = "init"
    /\ call.restarts # <<>>
    /\ i < call.initEpochs
    /\ LET keep(t) ==
            /\ bestFit' = t[1]
            /\ secondBestFit' = t[2]
            /\ nextId' = nextId + 2
           restart(err) ==
            IF err = SolveFailed THEN UNCHANGED <<bestFit, secondBestFit, nextId>>
            ELSE keep(TrackFits(bestFit, secondBestFit,
                                Fit(nextId, err, <<Rat(i + 1)>>), nextId + 1))
       IN  restart(call.restarts[i + 1])
    /\ i' = i + 1
    /\ UNCHANGED <<pc, call, reduced, components, points, resolver, sortedPoints,
                   pointsZones, learningRate, onFitCalls, result, suspended>>

SpecTrack == InitTrack /\ [][TrackRestart]_vars

\* the restarts so far that found a fit
Successful == {k \in 1..i : call.restarts[k] # SolveFailed}
\* the fit f is the fit of the restart k
FitOfRestart(f, k) == f.def /\ f.coeffs = <<Rat(k)>> /\ f.err = call.restarts[k]

\* C24: once two restarts or more have found a fit, in whatever order and with
\* whatever errors, ties included, bestFit and secondBestFit are the fits of two
\* different restarts, no other restart has an error below secondBestFit's, and
\* bestFit's error is not above secondBestFit's.
C24_TwoLowestTracked ==
    (pc = "init" /\ call.restarts # <<>> /\ Cardinality(Successful) >= 2)
        => \E b, s \in Successful :
                /\ b # s
                /\ FitOfRestart(bestFit, b)
                /\ FitOfRestart(secondBestFit, s)
                /\ ~RLess(secondBestFit.err, bestFit.err)
                /\ \A k \in Successful \ {b} : ~RLess(call.restarts[k], secondBestFit.err)

\* four restarts: the worst first, a failure, then the best and one in between
C24_Witness ==
    /\ pc = "init"
    /\ call.restarts = <<Rat(2), SolveFailed, Zero, One>>
    /\ i = 4
    /\ bestFit.err = Zero
    /\ secondBestFit.err = One


\* ------------------------------------------------------------------------
\* The second fit of the initialization (Spec)
\* ------------------------------------------------------------------------
\* the restarts that found a fit, while the restart loop runs: every one of
\* them takes two identities
SuccessfulRestarts == (nextId - 1) \div 2
\* one restart found a fit, or two did and found the same coefficients
FewerThanTwoDistinctFits ==
    /\ bestFit.def
    /\ \/ SuccessfulRestarts = 1
       \/ SuccessfulRestarts = 2 /\ secondBestFit.coeffs = bestFit.coeffs
\* the restart loop is left
InitializationEnds == pc = "init" /\ pc' # "init" /\ suspended' = suspended
\* bestFit's coefficients times 1.05, with their error
IsScaledFit(f) ==
    /\ f.coeffs = mult(bestFit.coeffs, <<21, 20>>)
    /\ f.err = LossOf(mult(bestFit.coeffs, <<21, 20>>))

\* C25: when the restarts are over and fewer than two distinct fits were found,
\* the second fit is made of bestFit's coefficients times 1.05 and their error:
\* of that fit and the fit found, the better is bestFit and the other
\* secondBestFit, and their coefficients differ.
C25_FallbackSecondFit ==
    [][(InitializationEnds /\ FewerThanTwoDistinctFits) =>
          /\ \/ IsScaledFit(secondBestFit') /\ SameFit(bestFit', bestFit)
             \/ IsScaledFit(bestFit') /\ SameFit(secondBestFit', bestFit)
          /\ bestFit'.coeffs # secondBestFit'.coeffs]_vars


\* ------------------------------------------------------------------------
\* The order of the two fits (Spec)
\* ------------------------------------------------------------------------
\* the initialization is over and has left two fits
Initialized == pc \in {"refine", "done"} /\ bestFit.def /\ secondBestFit.def

\* C26: when the initialization is over and after every refinement epoch,
\* bestFit's error is not above secondBestFit's; and from one epoch to the next
\* bestFit's error never goes up.
C26_FitsOrdered ==
    /\ [](Initialized => ~RLess(secondBestFit.err, bestFit.err))
    /\ [][(pc = "refine" /\ suspended' = suspended)
            => ~RLess(bestFit.err, bestFit'.err)]_vars

\* two improving epochs: three fits reported, each better than the one before,
\* the second best being the one before the best
C26_Witness ==
    /\ pc = "refine"
    /\ i = 2
    /\ Len(onFitCalls) = 3
    /\ RLess(onFitCalls[2].fit.err, onFitCalls[1].fit.err)
    /\ RLess(bestFit.err, onFitCalls[2].fit.err)
    /\ secondBestFit.err = onFitCalls[2].fit.err


\* ------------------------------------------------------------------------
\* Termination of the iterative path (SpecLive)
\* ------------------------------------------------------------------------
\* points on a line, one restart, and a rate that the first non-improving epoch
\* rounds to 0: the fit found is exact, no candidate improves on it
InitStalled ==
    \E ys \in {<<0, 1, 2>>, <<2, 1, 0>>, <<1, 1, 1>>}, rate \in {Zero, <<1, 250>>} :
        Idle([Iterative(1, Sampled(ys), FALSE, <<>>, <<>>)
                EXCEPT !.initEpochs = 1, !.learningRate = rate])

\* a call that has not returned or thrown has a next statement: each value of
\* pc but "done" is the guard of an action of Next, and the guards within one
\* value of pc are exhaustive. This is ENABLED <<Next>>_vars written out.
HasNextStep == pc # "done"

\* WF_vars(Next) with ENABLED <<Next>>_vars replaced by HasNextStep: the call is
\* one synchronous function, it takes its next step as long as it has one
RunsOn == []<>(~HasNextStep) \/ []<><<Next>>_vars

SpecLive == (Init \/ InitRates \/ InitStalled) /\ [][Next]_vars /\ RunsOn

\* the norm of the vector A is above EPSILON
NormExceedsEpsilon(A) ==
    PivotExceedsEpsilon(RSum([k \in 1..Len(A) |-> RMul(A[k], A[k])]))

\* C27: every iterative call comes to its end; the restart loop is left after
\* initEpochs attempts exactly, the refinement loop runs epochs iterations at
\* most and none once the norm of delta is EPSILON or less, and onFit is
\* called epochs + 1 times at most.
C27_Termination ==
    /\ <>(pc = "done")
    /\ [](/\ pc = "init" => i <= call.initEpochs
          /\ pc = "refine" => i <= call.epochs
          /\ Len(onFitCalls) <= call.epochs + 1)
    /\ [][/\ (pc = "init" /\ pc' = "init") => i' = i + 1
          /\ (pc = "init" /\ pc' # "init") => i = call.initEpochs
          /\ (pc = "refine" /\ pc' = "refine") => (i' = i + 1 /\ NormExceedsEpsilon(delta))
          /\ (pc = "refine" /\ pc' = "done" /\ i < call.epochs)
                => ~NormExceedsEpsilon(delta)]_vars

\* the refinement has stopped before its second epoch, delta being zero
C27_Witness ==
    /\ pc = "done"
    /\ result.kind = "fit"
    /\ call.initEpochs = 1
    /\ i = 1
    /\ call.epochs = 2
    /\ learningRate = Zero
    /\ Len(onFitCalls) = 1


\* ------------------------------------------------------------------------
\* The resolver of one elimination (SpecExpand)
\* ------------------------------------------------------------------------
\* bases of 2 and 3 of the caller's functions, reduced with one point
ExpandAbscissas == {Zero, One, <<1, 2>>}

InitExpand ==
    \E basis \in SeqsOf(BasisFunctions, 2, 3), x \in ExpandAbscissas, y \in {-1, 2} :
        /\ pc = "start"
        /\ call = EliminateCall(<<x, Rat(y)>>)
        /\ reduced = NoReduced
        /\ components = basis
        /\ points = <<>>
        /\ resolver = [has |-> FALSE, cl |-> NoClosure]
        /\ sortedPoints = <<>>
        /\ pointsZones = <<>>
        /\ i = 0
        /\ bestFit = NoFit
        /\ secondBestFit = NoFit
        /\ learningRate = Zero
        /\ nextId = 1
        /\ onFitCalls = <<>>
        /\ result = NoResult
        /\ suspended = <<>>

\* what the caller may give to the resolver: nothing, an empty list, or 1 to 3
\* entries, numbers or not
ExpandArgs ==
    {Undefined, <<>>} \cup SeqsOf({One, Rat(-2), <<1, 2>>, EmptyEntry}, 1, 3)

\* resolveCoeffs(coeffs), on the closure that one elimination returned
ResolveStep ==
    /\ pc = "done"
    /\ call.api = "eliminate"
    /\ reduced.ok
    /\ \E coeffs \in ExpandArgs :
        /\ call' = [call EXCEPT !.coeffs = coeffs]
        /\ LET finish(r) ==
                result' = IF r.ok THEN ReturnCoeffs(r.coeffs) ELSE Throw(r.error)
           IN  finish(resolveCoeffs(reduced.resolveCoeffs, coeffs))
    /\ pc' = "resolved"
    /\ UNCHANGED <<reduced, gdVars>>
    /\ UNCHANGED suspended

SpecExpand == InitExpand /\ [][Eliminate \/ ResolveStep]_vars

StepResolved == call.api = "eliminate" /\ pc = "resolved"
\* K[k] = -components[k](x) / components[N](x)
FactorK(k) == RDiv(RNeg(Call(components[k], call.pointConstraints[1][1])), Eliminated)
\* newY = y / components[N](x)
ShiftY == RDiv(call.pointConstraints[1][2], Eliminated)
\* N - 1 entries, each a number
AcceptedCoeffs ==
    /\ call.coeffs # Undefined
    /\ Len(call.coeffs) = Len(components) - 1
    /\ \A k \in 1..Len(call.coeffs) : IsNumber(call.coeffs[k])

\* C28: the resolver of the reduction of a basis of N > 1 functions accepts
\* N - 1 numbers and returns N entries, the N - 1 given ones unchanged and in
\* their order, then newY + sum of coeffs[k]*K[k]; given anything else (nothing,
\* another length, an entry that is not a number) it raises and returns nothing.
C28_SingleStepExpansion ==
    StepResolved =>
        IF AcceptedCoeffs
        THEN /\ result.kind = "coeffs"
             /\ Len(result.coeffs) = Len(components)
             /\ SubSeq(result.coeffs, 1, Len(components) - 1) = call.coeffs
             /\ result.coeffs[Len(components)] =
                    RAdd(ShiftY, RSum([k \in 1..Len(call.coeffs) |->
                                            RMul(call.coeffs[k], FactorK(k))]))
        ELSE result = Throw("input")

\* three functions reduced away from 0: two numbers given, the third entry
\* solved from both and from the point
C28_Witness ==
    /\ StepResolved
    /\ Len(components) = 3
    /\ AcceptedCoeffs
    /\ FactorK(1) # Zero
    /\ FactorK(2) # Zero
    /\ ShiftY # Zero
    /\ Len(result.coeffs) = 3
    /\ result.coeffs[3] # ShiftY
    /\ result.coeffs[3] # Zero


\* ------------------------------------------------------------------------
\* The composed resolver (SpecReduce)
\* ------------------------------------------------------------------------
\* the resolvers of the point eliminations and of the slope eliminations, each
\* list in elimination order
PointResolvers == reduced.resolveCoeffs.expandCoeffsFns
SlopeResolvers == reduced.resolveCoeffs.getSlopeCoeffs

\* the resolvers chain[k], chain[k-1], ..., chain[1] applied in this order
RECURSIVE AppliedLastFirst(_, _, _)
AppliedLastFirst(chain, k, coeffs) ==
    IF k = 0 THEN coeffs
    ELSE AppliedLastFirst(chain, k - 1, resolveCoeffs1(chain[k], coeffs).coeffs)

\* the caller gives as many numbers as components are left; when none is
\* left the resolver of the last elimination takes no argument
ReducedCoeffsGiven ==
    \/ reduced.components = <<>>
    \/ /\ call.coeffs # Undefined
       /\ Len(call.coeffs) = Len(reduced.components)
       /\ \A k \in 1..Len(call.coeffs) : IsNumber(call.coeffs[k])

ComposedResolved ==
    /\ call.api = "decrease"
    /\ pc = "resolved"
    /\ ReducedCoeffsGiven

\* C29: the composed resolver applies the point resolvers, last elimination
\* first, which gives as many coefficients as the basis has after slope
\* folding; with slopes it then applies the slope resolvers, last elimination
\* first, to all of these but the last, and appends the last unchanged.  The
\* result has the N entries of the original basis, in its order: the curve has
\* every slope constraint.
C29_ComposedReconstruction ==
    ComposedResolved =>
        LET composed(all) ==
                /\ Len(all) = SizeAfterSlopes
                /\ result.coeffs =
                    IF SlopeResolvers = <<>> THEN all
                    ELSE Append(AppliedLastFirst(SlopeResolvers, Len(SlopeResolvers),
                                                 SubSeq(all, 1, Len(all) - 1)),
                                all[Len(all)])
        IN  /\ result.kind = "coeffs"
            /\ composed(AppliedLastFirst(PointResolvers, Len(PointResolvers), call.coeffs))
            /\ Len(result.coeffs) = call.deg + 1
            /\ \A k \in 1..Len(call.slopes) : HasSlope(result.coeffs, call.slopes[k])

\* a parabola, one slope and one point: the caller's coefficient comes first,
\* then the one solved from the slope, then the one solved from the point
C29_Witness ==
    /\ ComposedResolved
    /\ call.deg = 2
    /\ Len(SlopeResolvers) = 1
    /\ Len(PointResolvers) = 1
    /\ Len(call.coeffs) = 1
    /\ Len(result.coeffs) = 3
    /\ result.coeffs[1] = call.coeffs[1]
    /\ result.coeffs[2] # Zero
    /\ result.coeffs[3] # Zero


\* ------------------------------------------------------------------------
\* The sampling zones (SpecZones)
\* ------------------------------------------------------------------------
\* three or four points in any order, x values given once or more than once
MaxZonePoints == 4

\* ... or four points at x = 0, 1, 2, 3
SpreadSamples == {[k \in 1..MaxZonePoints |-> Pt(k - 1, ys[k])] :
                    ys \in [1..MaxZonePoints -> {0, 1}]}

InitZones ==
    \E deg \in 1..MaxDeg,
       pts \in SeqsOf({Pt(x, y) : x \in 0..2, y \in {0, 1}}, 3, MaxZonePoints)
                \cup SpreadSamples :
        Idle(Iterative(deg, pts, FALSE, <<>>, <<>>))

SpecZones == InitZones /\ [][Next]_vars

\* the zones are made and the restarts draw from them
Sampling == call.api = "nonlinear" /\ ~call.exact /\ pc = "init"

\* size index ranges, each with a point at least, one after the other from 0 to
\* pointsSize - 1
ZonesPartition(zones, size, pointsSize) ==
    /\ Len(zones) = size
    /\ zones[1][1] = 0
    /\ zones[size][2] = pointsSize - 1
    /\ \A k \in 1..size : zones[k][1] <= zones[k][2]
    /\ \A k \in 1..(size - 1) : zones[k + 1][1] = zones[k][2] + 1

\* C30: for every point set, x values given more than once included, the zones
\* are as many as the basis has functions, contiguous, disjoint, not empty and
\* cover the sorted points 0..pointsSize-1; every sample a restart can draw
\* has one index per zone, the k-th inside the k-th zone and inside
\* 0..pointsSize-1.
C30_ZoneSampling ==
    Sampling =>
        /\ ZonesPartition(pointsZones, Len(components), Len(points))
        /\ \A idx \in RandomIndexes(pointsZones) :
            /\ Len(idx) = Len(components)
            /\ \A k \in 1..Len(idx) :
                /\ pointsZones[k][1] <= idx[k]
                /\ idx[k] <= pointsZones[k][2]
                /\ 0 <= idx[k]
                /\ idx[k] <= Len(points) - 1

====
